---- MODULE Spec2Model ----
(***************************************************************************)
(* Message delivery and status-synchronisation pipeline of the messaging   *)
(* service: idempotent ingestion (POST /messages), status transitions      *)
(* (PATCH /messages/:id/status, markAsDelivered, markAsRead), the fanout   *)
(* publishes and the offline queue.                                        *)
(*                                                                         *)
(* Every handler is split at its awaits: one action per store / Redis      *)
(* round-trip, so that the handlers of concurrent requests interleave      *)
(* exactly where the Node.js event loop lets them interleave.              *)
(*                                                                         *)
(* SpecSend   : POST /messages requests racing each other and PATCH        *)
(*              requests (ingestion and idempotency).                      *)
(* SpecStatus : PATCH requests and markAsDelivered / markAsRead calls      *)
(*              racing each other over messages sent one at a time.        *)
(* SpecOffline: POST /messages requests racing the real-time gateway:      *)
(*              socket connections with their drain of the offline queue,  *)
(*              disconnections, and the relay of the fanout events.        *)
(* SpecFaults : POST /messages requests whose store and Redis commands     *)
(*              may reject.                                                *)
(* SpecPatchFaults : PATCH requests whose store update may reject.         *)
(* SpecSession: handshakes with any token on two gateway instances, the    *)
(*              connection handlers and the typing commands.               *)
(* SpecReceipts: mark_delivered / mark_read commands of the sessions, the  *)
(*              status worker that serves them, malformed payloads.        *)
(* SpecClient : ResilientWebSocketClient, its sockets and its timers.      *)
(* SpecBackoff: the same client constructed with any small reconnect       *)
(*              intervals, for the delay of its reconnection timer.        *)
(* SpecRelay  : sends, PATCH requests and status calls whose events the    *)
(*              gateway relays to the rooms of the connected users.        *)
(* SpecReplicas: mark commands served by one or two instances of the       *)
(*              messaging service, each with its own status worker.        *)
(* SpecAck    : mark commands and a status worker that subscribes at any   *)
(*              moment, with weakly fair handlers (liveness).              *)
(*                                                                         *)
(* Timestamps (createdAt, the events' timestamp) and the expiry of Redis   *)
(* keys are not modelled.  The JSON text of a payload is represented by    *)
(* the payload itself: its fields are strings, which JSON.stringify and    *)
(* JSON.parse return unchanged.                                            *)
(***************************************************************************)
EXTENDS Integers, Sequences, FiniteSets, TLC

(* ---------------------------------------------------------------------- *)
(* Bounds                                                                  *)
(* ---------------------------------------------------------------------- *)
MaxOps == 3   \* requests, status calls and connections issued in a run

Procs     == {1, 2}                \* request handlers that can be in flight
Sockets   == {1, 2}                \* socket connections the gateway can hold
Users     == {"A", "B"}            \* registered user ids
Usernames == {"alice", "bob", "ghost"}
ClientIds == 1..MaxOps             \* client-supplied idempotency keys
Texts     == {"x"}                 \* opaque ciphertexts
MsgIds    == 1..MaxOps             \* ids the store can hand out in a run

Statuses  == {"sent", "delivered", "read"}

VARIABLES
  messages,   \* Message Store: the rows of table "messages", in creation order
  published,  \* the events the last step published; Redis pub/sub keeps none
  pending,    \* Offline Queue: pending:<userId> lists
  online,     \* Presence Registry: user:online:<userId> keys
  proc,       \* the request handlers in flight: operation, position, locals
  response,   \* the HTTP response the last step sent, with its request
  usedIds,    \* how many distinct clientMessageIds the clients have generated
  nSends,     \* POST /messages requests issued so far
  nPatches,   \* PATCH /messages/:id/status requests issued so far
  nMarks,     \* status calls, commands and foreign publishes issued so far
  subscribed, \* the gateway's Redis subscriber is connected
  inflight,   \* events Redis has handed to the gateway, not yet relayed
  sockets,    \* the gateway's sockets: user, position of the connection handler
  emitted,    \* the events the last step wrote to open sockets
  nConnects,  \* socket connections accepted so far
  queued,     \* history: ids of the messages ever appended to an Offline Queue
  drained,    \* history: ids of the messages a drain wrote to an open socket
  workerInbox, \* status commands Redis has handed to the status worker
  warned,     \* history: the status worker has logged a payload it rejected
  client,     \* a ResilientWebSocketClient, its sockets and its timers
  workers,    \* messaging-service instances whose status worker is subscribed
  receipts    \* history: the status-events the status workers' calls published

vars == <<messages, published, pending, online, proc, response, usedIds,
          nSends, nPatches, nMarks, subscribed, inflight, sockets, emitted,
          nConnects, queued, drained, workerInbox, warned, client, workers,
          receipts>>

(* ---------------------------------------------------------------------- *)
(* Collaborators and store primitives                                      *)
(* ---------------------------------------------------------------------- *)
NoUser    == "none"
NoMessage == [id |-> 0]
Idle      == [op |-> "none", pc |-> "idle"]

\* GET user-service /users/:username
ResolveUsername(username) ==
  CASE username = "alice" -> "A"
    [] username = "bob"   -> "B"
    [] OTHER              -> NoUser

\* MessageStatus order sent < delivered < read
Rank(status) ==
  CASE status = "sent"      -> 1
    [] status = "delivered" -> 2
    [] status = "read"      -> 3

\* { ...message, status: message?.status ?? 'sent' }
normalizeMessage(message) ==
  IF "status" \in DOMAIN message THEN message
  ELSE [f \in DOMAIN message \cup {"status"} |->
          IF f = "status" THEN "sent" ELSE message[f]]

\* prisma.message.findUnique({ where: { clientMessageId } })
findByClientMessageId(msgs, clientMessageId) ==
  IF \E i \in DOMAIN msgs : msgs[i].clientMessageId = clientMessageId
  THEN LET i == CHOOSE j \in DOMAIN msgs :
                  /\ msgs[j].clientMessageId = clientMessageId
                  /\ \A k \in DOMAIN msgs :
                        msgs[k].clientMessageId = clientMessageId => j <= k
       IN normalizeMessage(msgs[i])
  ELSE NoMessage

\* prisma.message.findUnique({ where: { id } })
findById(msgs, id) ==
  IF id \in DOMAIN msgs THEN normalizeMessage(msgs[id]) ELSE NoMessage

\* A mutant of the unique index: the index is missing.
UniqueViolation_NoIndex(msgs, clientMessageId) == FALSE

\* CREATE UNIQUE INDEX "messages_client_message_id_key"
UniqueViolation(msgs, clientMessageId) ==
  \E i \in DOMAIN msgs : msgs[i].clientMessageId = clientMessageId

\* the delivery payload built by sendMessage
Payload(message) ==
  [id |-> message.id, senderId |-> message.senderId,
   receiverId |-> message.receiverId,
   encryptedText |-> message.encryptedText, status |-> message.status]

Event(name, key, data) == [channel |-> <<name, key>>, data |-> data]

\* a published text that is not JSON
Unparseable == [unparseable |-> TRUE]

\* JSON.parse(message) throws
ParseFails(data) == "unparseable" \in DOMAIN data

\* the step sends no HTTP response
NoResponse == [op |-> "none"]

Busy(p) == proc[p] # Idle

\* a new request is served by the first handler that is not in flight
FreeProc(p) == ~Busy(p) /\ \A q \in Procs : q < p => Busy(q)

\* the run may take one more request, status call or socket connection
Budget == nSends + nPatches + nMarks + nConnects < MaxOps

\* a client either generates a fresh clientMessageId or retries an earlier one
ClientChoice(clientMessageId) == clientMessageId <= usedIds + 1

\* a client names the id of a stored message or an id the store does not hold
IdChoice(id) == id <= Len(messages) + 1

\* a socket slot of the gateway with no connection
Closed == [pc |-> "closed"]

\* the ids of the payloads held in the Offline Queues q
QueuedIds(q) == UNION {{q[u][k].id : k \in DOMAIN q[u]} : u \in Users}

\* the calls of the status worker (they keep the command they serve) that
\* end in the step
Serving == {p \in Procs : "command" \in DOMAIN proc[p] /\ proc'[p] = Idle}

\* What a step of the messaging service leaves to Redis and the gateway:
\* redisClient.publish hands the step's events to the gateway's pattern
\* subscriptions (new_message:*, message_status:*) if the subscriber is
\* connected, and to nobody otherwise; no socket is written to.
Deliver ==
  /\ inflight' = IF subscribed THEN inflight \o published' ELSE inflight
  /\ emitted' = << >>
  /\ queued' = queued \cup QueuedIds(pending')
  /\ receipts' =
        IF Serving = {} THEN receipts
        ELSE receipts \o
               [k \in DOMAIN published' |->
                  [command  |-> proc[CHOOSE p \in Serving : TRUE].command,
                   senderId |-> published'[k].channel[2]]]
  /\ UNCHANGED <<subscribed, sockets, nConnects, drained, workerInbox, warned,
                 client, workers>>

\* new ResilientWebSocketClient(options): no socket, no timer; with it, what
\* the model keeps of its environment: the sockets io() has created (socks),
\* the timers setTimeout has scheduled and not yet run (timers), the
\* callbacks of the options the last step invoked (called), the delay of the
\* reconnect timer scheduled last (delay)
NewClient ==
  [socket |-> 0, reconnectAttempts |-> 0, reconnectTimer |-> 0,
   isIntentionalDisconnect |-> FALSE,
   options |-> [reconnectInterval |-> 1000, maxReconnectInterval |-> 30000],
   socks |-> << >>, timers |-> {}, nTimers |-> 0, events |-> 0,
   called |-> << >>, delay |-> 0]

\* no message, no key in Redis, no request, no connection
Constructed ==
  /\ messages = << >>
  /\ published = << >>
  /\ pending = [u \in Users |-> << >>]
  /\ online = [u \in Users |-> FALSE]
  /\ proc = [p \in Procs |-> Idle]
  /\ response = NoResponse
  /\ usedIds = 0
  /\ nSends = 0
  /\ nPatches = 0
  /\ nMarks = 0
  /\ subscribed = FALSE
  /\ inflight = << >>
  /\ sockets = [s \in Sockets |-> Closed]
  /\ emitted = << >>
  /\ nConnects = 0
  /\ queued = {}
  /\ drained = {}
  /\ workerInbox = << >>
  /\ warned = FALSE
  /\ receipts = << >>

Init ==
  /\ Constructed
  /\ client = NewClient
  /\ workers = 0

\* the messaging service runs as one instance, its status worker subscribed
InitServing ==
  /\ Constructed
  /\ client = NewClient
  /\ workers = 1

(* ---------------------------------------------------------------------- *)
(* POST /messages : messageController.sendMessage + messageService.sendMessage *)
(* ---------------------------------------------------------------------- *)

\* the handler answers and ends
Respond(p, r) ==
  /\ proc' = [proc EXCEPT ![p] = Idle]
  /\ response' = r

\* A mutant of the replay branch: a replay answers with the request's data.
ReplayResponse_Echo(existing, req) ==
  [op |-> "send", req |-> req, code |-> 200, replay |-> TRUE,
   data |-> [existing EXCEPT !.senderId = req.senderId, !.status = "sent"]]

\* res.json({ success, data: existingMessage, message: '... (idempotent response)' })
ReplayResponse(existing, req) ==
  [op |-> "send", req |-> req, code |-> 200, replay |-> TRUE, data |-> existing]

\* res.status(201).json({ success, data: message })
CreatedResponse(message, req) ==
  [op |-> "send", req |-> req, code |-> 201, replay |-> FALSE, data |-> message]

\* errorHandler: AppError -> its statusCode, anything else -> 500
ErrorResponse(op, req, code) ==
  [op |-> op, req |-> req, code |-> code, replay |-> FALSE, data |-> NoMessage]

\* A mutant of the replay branch: a replay publishes and queues the payload again.
SendLookup_Republish(p, senderId, receiverUsername, encryptedText, clientMessageId) ==
  /\ FreeProc(p)
  /\ Budget
  /\ ClientChoice(clientMessageId)
  /\ nSends' = nSends + 1
  /\ usedIds' = IF clientMessageId > usedIds THEN clientMessageId ELSE usedIds
  /\ LET req == [senderId |-> senderId, receiverUsername |-> receiverUsername,
                 encryptedText |-> encryptedText,
                 clientMessageId |-> clientMessageId]
         existingMessage == findByClientMessageId(messages, clientMessageId)
     IN IF existingMessage # NoMessage
        THEN /\ Respond(p, ReplayResponse(existingMessage, req))
             /\ published' = (<<Event("new_message", existingMessage.receiverId,
                           Payload(existingMessage))>>)
             /\ pending' = [pending EXCEPT ![existingMessage.receiverId] =
                   Append(@, Payload(existingMessage))]
        ELSE /\ proc' = [proc EXCEPT ![p] =
                  [op |-> "send", pc |-> "resolve", req |-> req]]
             /\ response' = NoResponse /\ published' = << >> /\ UNCHANGED pending
  /\ UNCHANGED <<messages, online, nPatches, nMarks>>
  /\ Deliver

\* the idempotency lookup; a hit answers at once
SendLookup(p, senderId, receiverUsername, encryptedText, clientMessageId) ==
  /\ FreeProc(p)
  /\ Budget
  /\ ClientChoice(clientMessageId)
  /\ nSends' = nSends + 1
  /\ usedIds' = IF clientMessageId > usedIds THEN clientMessageId ELSE usedIds
  /\ LET req == [senderId |-> senderId, receiverUsername |-> receiverUsername,
                 encryptedText |-> encryptedText,
                 clientMessageId |-> clientMessageId]
         existingMessage == findByClientMessageId(messages, clientMessageId)
     IN IF existingMessage # NoMessage
        THEN Respond(p, ReplayResponse(existingMessage, req))
        ELSE /\ proc' = [proc EXCEPT ![p] =
                  [op |-> "send", pc |-> "resolve", req |-> req]]
             /\ response' = NoResponse
  /\ published' = << >>
  /\ UNCHANGED <<messages, pending, online, nPatches, nMarks>>
  /\ Deliver

\* A mutant of the resolution: an unknown receiver is stored under no user.
SendResolve_NoCheck(p) ==
  /\ proc[p].op = "send" /\ proc[p].pc = "resolve"
  /\ proc' = [proc EXCEPT ![p] =
        [op |-> "send", pc |-> "create", req |-> proc[p].req,
         receiverId |-> IF ResolveUsername(proc[p].req.receiverUsername) = NoUser
                        THEN "A"
                        ELSE ResolveUsername(proc[p].req.receiverUsername)]]
  /\ response' = NoResponse
  /\ published' = << >>
  /\ UNCHANGED <<messages, pending, online, usedIds, nSends, nPatches, nMarks>>
  /\ Deliver

\* axios.get(user-service); not found is AppError('Receiver not found', 404)
SendResolve(p) ==
  /\ proc[p].op = "send" /\ proc[p].pc = "resolve"
  /\ LET receiverId == ResolveUsername(proc[p].req.receiverUsername)
     IN IF receiverId = NoUser
        THEN Respond(p, ErrorResponse("send", proc[p].req, 404))
        ELSE /\ proc' = [proc EXCEPT ![p] =
                  [op |-> "send", pc |-> "create", req |-> proc[p].req,
                   receiverId |-> receiverId]]
             /\ response' = NoResponse
  /\ published' = << >>
  /\ UNCHANGED <<messages, pending, online, usedIds, nSends, nPatches, nMarks>>
  /\ Deliver

\* prisma.message.create; a unique-index violation is rethrown and becomes
\* the errorHandler's 500
SendCreate(p) ==
  /\ proc[p].op = "send" /\ proc[p].pc = "create"
  /\ LET req == proc[p].req
         message == [id |-> Len(messages) + 1,
                     senderId |-> req.senderId,
                     receiverId |-> proc[p].receiverId,
                     encryptedText |-> req.encryptedText,
                     status |-> "sent",
                     clientMessageId |-> req.clientMessageId]
     IN IF UniqueViolation(messages, req.clientMessageId)
        THEN /\ Respond(p, ErrorResponse("send", req, 500))
             /\ UNCHANGED messages
        ELSE /\ messages' = Append(messages, message)
             /\ proc' = [proc EXCEPT ![p] =
                  [op |-> "send", pc |-> "publish", req |-> req,
                   message |-> normalizeMessage(message)]]
             /\ response' = NoResponse
  /\ published' = << >>
  /\ UNCHANGED <<pending, online, usedIds, nSends, nPatches, nMarks>>
  /\ Deliver

\* A mutant of the fanout publish: it is skipped for a receiver without
\* presence key.
SendPublish_OnlineOnly(p) ==
  /\ proc[p].op = "send" /\ proc[p].pc = "publish"
  /\ published' = IF online[proc[p].message.receiverId]
                  THEN <<Event("new_message", proc[p].message.receiverId,
                               Payload(proc[p].message))>>
                  ELSE << >>
  /\ proc' = [proc EXCEPT ![p].pc = "presence"]
  /\ response' = NoResponse
  /\ UNCHANGED <<messages, pending, online, usedIds, nSends, nPatches, nMarks>>
  /\ Deliver

\* publishMessage(`new_message:${receiver.id}`, payload)
SendPublish(p) ==
  /\ proc[p].op = "send" /\ proc[p].pc = "publish"
  /\ published' = (<<Event("new_message", proc[p].message.receiverId,
                Payload(proc[p].message))>>)
  /\ proc' = [proc EXCEPT ![p].pc = "presence"]
  /\ response' = NoResponse
  /\ UNCHANGED <<messages, pending, online, usedIds, nSends, nPatches, nMarks>>
  /\ Deliver

\* A mutant of the presence test: the payload is queued whatever is read.
SendReadPresence_AlwaysEnqueue(p) ==
  /\ proc[p].op = "send" /\ proc[p].pc = "presence"
  /\ proc' = [proc EXCEPT ![p].pc = "enqueue"]
  /\ response' = NoResponse
  /\ published' = << >>
  /\ UNCHANGED <<messages, pending, online, usedIds, nSends, nPatches, nMarks>>
  /\ Deliver

\* redisClient.get(`user:online:${receiver.id}`)
SendReadPresence(p) ==
  /\ proc[p].op = "send" /\ proc[p].pc = "presence"
  /\ IF online[proc[p].message.receiverId]
     THEN Respond(p, CreatedResponse(proc[p].message, proc[p].req))
     ELSE /\ proc' = [proc EXCEPT ![p].pc = "enqueue"]
          /\ response' = NoResponse
  /\ published' = << >>
  /\ UNCHANGED <<messages, pending, online, usedIds, nSends, nPatches, nMarks>>
  /\ Deliver

\* redisClient.rPush(pendingKey, payload); expire(pendingKey, 24h); 201
SendEnqueue(p) ==
  /\ proc[p].op = "send" /\ proc[p].pc = "enqueue"
  /\ pending' = [pending EXCEPT ![proc[p].message.receiverId] =
        Append(@, Payload(proc[p].message))]
  /\ Respond(p, CreatedResponse(proc[p].message, proc[p].req))
  /\ published' = << >>
  /\ UNCHANGED <<messages, online, usedIds, nSends, nPatches, nMarks>>
  /\ Deliver

(* ---------------------------------------------------------------------- *)
(* POST /messages when the Message Store or Redis is unavailable: an       *)
(* awaited command of sendMessage rejects                                  *)
(* ---------------------------------------------------------------------- *)

\* A mutant of the failed create: the payload is published all the same.
SendCreateFails_Published(p) ==
  /\ proc[p].op = "send" /\ proc[p].pc = "create"
  /\ Respond(p, ErrorResponse("send", proc[p].req, 500))
  /\ published' = (<<Event("new_message", proc[p].receiverId,
        [id |-> Len(messages) + 1, senderId |-> proc[p].req.senderId,
         receiverId |-> proc[p].receiverId,
         encryptedText |-> proc[p].req.encryptedText, status |-> "sent"])>>)
  /\ UNCHANGED <<messages, pending, online, usedIds, nSends, nPatches, nMarks>>
  /\ Deliver

\* prisma.message.create rejects: the outer catch rethrows, errorHandler
\* answers 500
SendCreateFails(p) ==
  /\ proc[p].op = "send" /\ proc[p].pc = "create"
  /\ Respond(p, ErrorResponse("send", proc[p].req, 500))
  /\ published' = << >>
  /\ UNCHANGED <<messages, pending, online, usedIds, nSends, nPatches, nMarks>>
  /\ Deliver

\* publishMessage rejects: the await is outside the inner try, so the outer
\* catch rethrows and errorHandler answers 500
SendPublishFails(p) ==
  /\ proc[p].op = "send" /\ proc[p].pc = "publish"
  /\ Respond(p, ErrorResponse("send", proc[p].req, 500))
  /\ published' = << >>
  /\ UNCHANGED <<messages, pending, online, usedIds, nSends, nPatches, nMarks>>
  /\ Deliver

\* A mutant of the inner catch: the error of the presence read is rethrown.
SendPresenceFails_Rethrown(p) ==
  /\ proc[p].op = "send" /\ proc[p].pc = "presence"
  /\ Respond(p, ErrorResponse("send", proc[p].req, 500))
  /\ published' = << >>
  /\ UNCHANGED <<messages, pending, online, usedIds, nSends, nPatches, nMarks>>
  /\ Deliver

\* redisClient.get rejects: the inner catch logs a warning, the send returns
\* the message
SendPresenceFails(p) ==
  /\ proc[p].op = "send" /\ proc[p].pc = "presence"
  /\ Respond(p, CreatedResponse(proc[p].message, proc[p].req))
  /\ published' = << >>
  /\ UNCHANGED <<messages, pending, online, usedIds, nSends, nPatches, nMarks>>
  /\ Deliver

\* redisClient.rPush rejects (nothing is appended), or redisClient.expire
\* rejects (the payload is appended): the inner catch logs a warning, the
\* send returns the message
SendEnqueueFails(p, failed) ==
  /\ proc[p].op = "send" /\ proc[p].pc = "enqueue"
  /\ pending' = IF failed = "rPush" THEN pending
                ELSE [pending EXCEPT ![proc[p].message.receiverId] =
                        Append(@, Payload(proc[p].message))]
  /\ Respond(p, CreatedResponse(proc[p].message, proc[p].req))
  /\ published' = << >>
  /\ UNCHANGED <<messages, online, usedIds, nSends, nPatches, nMarks>>
  /\ Deliver

(* ---------------------------------------------------------------------- *)
(* PATCH /messages/:id/status : messageController.updateMessageStatus +    *)
(* messageService.updateMessageStatus                                      *)
(* ---------------------------------------------------------------------- *)

\* A mutant of the permission check: the sender may update too.
Forbidden_SenderAllowed(message, userId, status) ==
  /\ message.receiverId # userId
  /\ message.senderId # userId
  /\ status \in {"delivered", "read"}

\* "Only receiver can mark as delivered/read"
Forbidden(message, userId, status) ==
  /\ message.receiverId # userId
  /\ status \in {"delivered", "read"}

\* findById and the permission check
PatchFind(p, userId, id, status) ==
  /\ FreeProc(p)
  /\ Budget
  /\ IdChoice(id)
  /\ nPatches' = nPatches + 1
  /\ LET req == [userId |-> userId, id |-> id, status |-> status]
         message == findById(messages, id)
     IN IF message = NoMessage
        THEN Respond(p, ErrorResponse("patch", req, 404))
        ELSE IF Forbidden(message, userId, status)
        THEN Respond(p, ErrorResponse("patch", req, 403))
        ELSE /\ proc' = [proc EXCEPT ![p] =
                  [op |-> "patch", pc |-> "update", req |-> req]]
             /\ response' = NoResponse
  /\ published' = << >>
  /\ UNCHANGED <<messages, pending, online, usedIds, nSends, nMarks>>
  /\ Deliver

\* prisma.message.update({ where: { id }, data: { status } })
PatchUpdate(p) ==
  /\ proc[p].op = "patch" /\ proc[p].pc = "update"
  /\ LET req == proc[p].req
     IN /\ messages' = [messages EXCEPT ![req.id].status = req.status]
        /\ proc' = [proc EXCEPT ![p] =
             [op |-> "patch", pc |-> "publish", req |-> req,
              message |-> normalizeMessage(messages'[req.id])]]
  /\ published' = << >>
  /\ response' = NoResponse
  /\ UNCHANGED <<pending, online, usedIds, nSends, nPatches, nMarks>>
  /\ Deliver

\* A mutant of the status publish: the event goes to the receiver's channel.
PatchPublish_ToReceiver(p) ==
  /\ proc[p].op = "patch" /\ proc[p].pc = "publish"
  /\ published' = (<<Event("message_status", proc[p].message.receiverId,
                [messageId |-> proc[p].req.id, status |-> proc[p].req.status])>>)
  /\ Respond(p, [op |-> "patch", req |-> proc[p].req, code |-> 200,
                 replay |-> FALSE, data |-> proc[p].message])
  /\ UNCHANGED <<messages, pending, online, usedIds, nSends, nPatches, nMarks>>
  /\ Deliver

\* publishMessage(`message_status:${senderId}`, { messageId, status, timestamp })
PatchPublish(p) ==
  /\ proc[p].op = "patch" /\ proc[p].pc = "publish"
  /\ published' = (<<Event("message_status", proc[p].message.senderId,
                [messageId |-> proc[p].req.id, status |-> proc[p].req.status])>>)
  /\ Respond(p, [op |-> "patch", req |-> proc[p].req, code |-> 200,
                 replay |-> FALSE, data |-> proc[p].message])
  /\ UNCHANGED <<messages, pending, online, usedIds, nSends, nPatches, nMarks>>
  /\ Deliver

\* prisma.message.update rejects: updateMessageStatus throws before its
\* publish, errorHandler answers 500
PatchUpdateFails(p) ==
  /\ proc[p].op = "patch" /\ proc[p].pc = "update"
  /\ Respond(p, ErrorResponse("patch", proc[p].req, 500))
  /\ published' = << >>
  /\ UNCHANGED <<messages, pending, online, usedIds, nSends, nPatches, nMarks>>
  /\ Deliver

(* ---------------------------------------------------------------------- *)
(* messageService.markAsDelivered / markAsRead                             *)
(* ---------------------------------------------------------------------- *)

\* A mutant of the bulk filter: the receiver is not checked.
DeliveredFilter_AnyReceiver(message, messageIds, userId) ==
  /\ message.id \in messageIds
  /\ message.status = "sent"

\* where: { id: { in: messageIds }, receiverId: userId, status: sent }
DeliveredFilter(message, messageIds, userId) ==
  /\ message.id \in messageIds
  /\ message.receiverId = userId
  /\ message.status = "sent"

\* where: { id: { in: messageIds }, receiverId: userId, status: { not: read } }
ReadFilter(message, messageIds, userId) ==
  /\ message.id \in messageIds
  /\ message.receiverId = userId
  /\ message.status # "read"

\* prisma.message.updateMany of markAsDelivered
updateManyDelivered(msgs, messageIds, userId) ==
  [i \in DOMAIN msgs |->
     IF DeliveredFilter(msgs[i], messageIds, userId)
     THEN [msgs[i] EXCEPT !.status = "delivered"] ELSE msgs[i]]

\* prisma.message.updateMany of markAsRead
updateManyRead(msgs, messageIds, userId) ==
  [i \in DOMAIN msgs |->
     IF ReadFilter(msgs[i], messageIds, userId)
     THEN [msgs[i] EXCEPT !.status = "read"] ELSE msgs[i]]

\* the rows an updateMany changed (its count result, as the set of ids)
Changed(msgs, after) == {i \in DOMAIN msgs : msgs[i].status # after[i].status}

\* A mutant of the receipts' query: the receiver is not checked.
FoundFilter_AnyReceiver(message, messageIds, userId) ==
  message.id \in messageIds

\* where: { id: { in: messageIds }, receiverId: userId }
FoundFilter(message, messageIds, userId) ==
  /\ message.id \in messageIds
  /\ message.receiverId = userId

\* prisma.message.findMany(...), select: { id, senderId }
findMany(msgs, messageIds, userId) ==
  SelectSeq(msgs, LAMBDA m : FoundFilter(m, messageIds, userId))

\* position of senderId among the entries of acc, 0 when it has none
EntryOf(acc, senderId) ==
  IF \E i \in DOMAIN acc : acc[i][1] = senderId
  THEN CHOOSE i \in DOMAIN acc : acc[i][1] = senderId
  ELSE 0

\* A mutant of the reducer: a sender's entry keeps only the last id.
Push_Overwrite(acc, current) ==
  LET k == EntryOf(acc, current.senderId)
  IN IF k = 0 THEN Append(acc, <<current.senderId, <<current.id>>>>)
     ELSE [acc EXCEPT ![k] = <<current.senderId, <<current.id>>>>]

\* the reducer: acc[current.senderId].push(current.id)
Push(acc, current) ==
  LET k == EntryOf(acc, current.senderId)
  IN IF k = 0 THEN Append(acc, <<current.senderId, <<current.id>>>>)
     ELSE [acc EXCEPT ![k] = <<current.senderId, Append(acc[k][2], current.id)>>]

\* updatedMessages.reduce(..., {}) : Object.entries order, [senderId, ids]
RECURSIVE messagesBySender(_)
messagesBySender(rows) ==
  IF rows = << >> THEN << >>
  ELSE Push(messagesBySender(SubSeq(rows, 1, Len(rows) - 1)), rows[Len(rows)])

\* Promise.all(entries.map(publishMessage(`message_status:${senderId}`, ...)))
Receipts(entries, status) ==
  [i \in DOMAIN entries |->
     Event("message_status", entries[i][1],
           [messageIds |-> entries[i][2], status |-> status])]

\* markAsDelivered: the early return on an empty list, else the updateMany
MarkDeliveredUpdate(p, messageIds, userId) ==
  /\ FreeProc(p)
  /\ Budget
  /\ \A id \in messageIds : IdChoice(id)
  /\ nMarks' = nMarks + 1
  /\ LET after == updateManyDelivered(messages, messageIds, userId)
     IN IF messageIds = {}
        THEN UNCHANGED <<messages, proc>>
        ELSE /\ messages' = after
             /\ proc' = [proc EXCEPT ![p] =
                  [op |-> "markAsDelivered", pc |-> "notify",
                   messageIds |-> messageIds, userId |-> userId,
                   changed |-> Changed(messages, after)]]
  /\ published' = << >>
  /\ response' = NoResponse
  /\ UNCHANGED <<pending, online, usedIds, nSends, nPatches>>
  /\ Deliver

\* markAsRead: the updateMany
MarkReadUpdate(p, messageIds, userId) ==
  /\ FreeProc(p)
  /\ Budget
  /\ \A id \in messageIds : IdChoice(id)
  /\ nMarks' = nMarks + 1
  /\ LET after == updateManyRead(messages, messageIds, userId)
     IN /\ messages' = after
        /\ proc' = [proc EXCEPT ![p] =
             [op |-> "markAsRead", pc |-> "notify",
              messageIds |-> messageIds, userId |-> userId,
              changed |-> Changed(messages, after)]]
  /\ published' = << >>
  /\ response' = NoResponse
  /\ UNCHANGED <<pending, online, usedIds, nSends, nPatches>>
  /\ Deliver

\* both: findMany, group by sender, publish one receipt per entry
MarkNotify(p) ==
  /\ proc[p].op \in {"markAsDelivered", "markAsRead"} /\ proc[p].pc = "notify"
  /\ LET rows == findMany(messages, proc[p].messageIds, proc[p].userId)
         status == IF proc[p].op = "markAsDelivered" THEN "delivered" ELSE "read"
     IN published' = (Receipts(messagesBySender(rows), status))
  /\ proc' = [proc EXCEPT ![p] = Idle]
  /\ response' = NoResponse
  /\ UNCHANGED <<messages, pending, online, usedIds, nSends, nPatches, nMarks>>
  /\ Deliver

(* ---------------------------------------------------------------------- *)
(* Real-time gateway: subscribeToChannels and the connection handler of    *)
(* setupSocketHandlers                                                     *)
(* ---------------------------------------------------------------------- *)

\* A mutant of the list read: the newest payload comes first.
lRange_NewestFirst(list, start, stop) ==
  [k \in 1..Len(list) |-> list[Len(list) + 1 - k]]

\* redisClient.lRange(key, start, stop): the elements from index start to
\* index stop, counted from 0 at the head; a negative index counts from the
\* tail
lRange(list, start, stop) ==
  LET n    == Len(list)
      from == IF start >= 0 THEN start ELSE IF n + start < 0 THEN 0 ELSE n + start
      to   == IF stop < 0 THEN n + stop ELSE IF stop > n - 1 THEN n - 1 ELSE stop
  IN SubSeq(list, from + 1, to + 1)

\* the gateway stores no message and answers no HTTP request
OnGateway ==
  /\ published' = << >>
  /\ response' = NoResponse
  /\ UNCHANGED <<messages, proc, usedIds, nSends, nPatches, nMarks, queued,
                 workerInbox, warned, client, workers, receipts>>

\* a new connection takes the first socket slot that holds none
FreeSocket(s) ==
  sockets[s] = Closed /\ \A t \in Sockets : t < s => sockets[t] # Closed

\* socket s is in room user:<userId>: it joined on connection, and socket.io
\* takes a socket out of its rooms when it closes
InRoom(s, userId) ==
  /\ sockets[s] # Closed
  /\ sockets[s].open
  /\ sockets[s].userId = userId

\* the sockets of room user:<userId>
Room(userId) ==
  SelectSeq([s \in 1..Cardinality(Sockets) |-> s],
            LAMBDA s : InRoom(s, userId))

\* socket.emit(event, data); a write to a closed socket is dropped
Emit(s, event, data) == [socket |-> s, event |-> event, data |-> data]

\* a slot is free again when its socket is closed and its handlers are done
Settle(socket) ==
  IF ~socket.open /\ socket.pc = "ready" /\ ~socket.clearing
  THEN Closed ELSE socket

\* startServer: subscribeToChannels(io), then httpServer.listen
GatewayStart ==
  /\ ~subscribed
  /\ subscribed' = TRUE
  /\ emitted' = << >>
  /\ UNCHANGED <<inflight, sockets, nConnects, drained, pending, online>>
  /\ OnGateway

\* io.on('connection'): an authenticated socket connects and joins room
\* user:<userId>
Connect(s, userId) ==
  /\ subscribed
  /\ FreeSocket(s)
  /\ Budget
  /\ nConnects' = nConnects + 1
  /\ sockets' = [sockets EXCEPT ![s] =
        [pc |-> "presence", userId |-> userId, open |-> TRUE,
         clearing |-> FALSE, pendingMessages |-> << >>]]
  /\ emitted' = << >>
  /\ UNCHANGED <<subscribed, inflight, drained, pending, online>>
  /\ OnGateway

\* redisClient.set(`user:online:${userId}`, 'true', { EX: 300 }); the handler
\* then registers the socket's listeners, the disconnect listener included
SetPresence(s) ==
  /\ sockets[s].pc = "presence"
  /\ online' = [online EXCEPT ![sockets[s].userId] = TRUE]
  /\ sockets' = [sockets EXCEPT ![s].pc = "drain"]
  /\ emitted' = << >>
  /\ UNCHANGED <<subscribed, inflight, nConnects, drained, pending>>
  /\ OnGateway

\* redisClient.lRange(pendingKey, 0, -1), then socket.emit('new_message', ...)
\* for each payload read
DrainRead(s) ==
  /\ sockets[s].pc = "drain"
  /\ LET pendingMessages == lRange(pending[sockets[s].userId], 0, -1)
     IN /\ sockets' = [sockets EXCEPT ![s] =
             Settle([@ EXCEPT !.pc = IF Len(pendingMessages) > 0
                                     THEN "delete" ELSE "ready",
                              !.pendingMessages = pendingMessages])]
        /\ emitted' = IF sockets[s].open
                      THEN [k \in DOMAIN pendingMessages |->
                              Emit(s, "new_message", pendingMessages[k])]
                      ELSE << >>
        /\ drained' = IF sockets[s].open
                      THEN drained \cup {pendingMessages[k].id :
                                           k \in DOMAIN pendingMessages}
                      ELSE drained
  /\ UNCHANGED <<subscribed, inflight, nConnects, pending, online>>
  /\ OnGateway

\* redisClient.del(pendingKey)
DrainDelete(s) ==
  /\ sockets[s].pc = "delete"
  /\ pending' = [pending EXCEPT ![sockets[s].userId] = << >>]
  /\ sockets' = [sockets EXCEPT ![s] =
        Settle([@ EXCEPT !.pc = "ready", !.pendingMessages = << >>])]
  /\ emitted' = << >>
  /\ UNCHANGED <<subscribed, inflight, nConnects, drained, online>>
  /\ OnGateway

\* the socket closes; its disconnect listener runs if it is registered yet
Disconnect(s) ==
  /\ sockets[s] # Closed
  /\ sockets[s].open
  /\ sockets' = [sockets EXCEPT ![s] =
        [@ EXCEPT !.open = FALSE,
                  !.clearing = (sockets[s].pc \in {"drain", "delete", "ready"})]]
  /\ emitted' = << >>
  /\ UNCHANGED <<subscribed, inflight, nConnects, drained, pending, online>>
  /\ OnGateway

\* socket.on('disconnect'): redisClient.del(`user:online:${userId}`)
ClearPresence(s) ==
  /\ sockets[s] # Closed
  /\ sockets[s].clearing
  /\ online' = [online EXCEPT ![sockets[s].userId] = FALSE]
  /\ sockets' = [sockets EXCEPT ![s] = Settle([@ EXCEPT !.clearing = FALSE])]
  /\ emitted' = << >>
  /\ UNCHANGED <<subscribed, inflight, nConnects, drained, pending>>
  /\ OnGateway

\* A mutant of the relay: io.emit(event, data), to every open socket.
RelayNext_Broadcast ==
  /\ inflight # << >>
  /\ LET e      == Head(inflight)
         room   == SelectSeq([s \in 1..Cardinality(Sockets) |-> s],
                             LAMBDA s : sockets[s] # Closed /\ sockets[s].open)
     IN emitted' = IF ParseFails(e.data) THEN << >>
                   ELSE [k \in DOMAIN room |->
                           Emit(room[k], e.channel[1], e.data)]
  /\ inflight' = Tail(inflight)
  /\ UNCHANGED <<subscribed, sockets, nConnects, drained, pending, online>>
  /\ OnGateway

\* the pSubscribe listeners: io.to(`user:${userId}`).emit(event, data); a
\* message JSON.parse rejects is logged and dropped by the listener's catch
RelayNext ==
  /\ inflight # << >>
  /\ LET e      == Head(inflight)
         room   == Room(e.channel[2])
     IN emitted' = IF ParseFails(e.data) THEN << >>
                   ELSE [k \in DOMAIN room |->
                           Emit(room[k], e.channel[1], e.data)]
  /\ inflight' = Tail(inflight)
  /\ UNCHANGED <<subscribed, sockets, nConnects, drained, pending, online>>
  /\ OnGateway

(* ---------------------------------------------------------------------- *)
(* Real-time gateway: the handshake middleware and the socket's commands   *)
(* ---------------------------------------------------------------------- *)

\* gateway instances behind the load balancer; each holds its own sockets
Instances == {1, 2}

\* socket.handshake.auth.token: absent, forged or expired, or issued to a user
Tokens == {"", "forged", "token-A", "token-B"}

\* A mutant of the verification: the token is decoded, its signature unchecked.
verify_Unchecked(token) ==
  IF token = "token-B" THEN [id |-> "B"] ELSE [id |-> "A"]

\* JWTUtils.verify(token): the payload of a token signed with the secret and
\* not expired; it throws on any other
verify(token) ==
  CASE token = "token-A" -> [id |-> "A"]
    [] token = "token-B" -> [id |-> "B"]
    [] OTHER             -> [error |-> "JsonWebTokenError"]

\* io.use(...): the middleware rejects the handshake (the client gets
\* connect_error and no connection event fires), or stores the payload in
\* socket.data.user; io.on('connection') then joins room user:<userId>
Handshake(s, i, token) ==
  /\ subscribed
  /\ FreeSocket(s)
  /\ Budget
  /\ nConnects' = nConnects + 1
  /\ LET payload == verify(token)
     IN IF token = ""
        THEN /\ sockets' = sockets
             /\ emitted' = <<Emit(s, "connect_error",
                                  [message |-> "Authentication required"])>>
        ELSE IF "error" \in DOMAIN payload
        THEN /\ sockets' = sockets
             /\ emitted' = <<Emit(s, "connect_error",
                                  [message |-> "Invalid token"])>>
        ELSE /\ sockets' = [sockets EXCEPT ![s] =
                  [pc |-> "presence", userId |-> payload.id, open |-> TRUE,
                   clearing |-> FALSE, pendingMessages |-> << >>,
                   token |-> token, instance |-> i]]
             /\ emitted' = << >>
  /\ UNCHANGED <<subscribed, inflight, drained, pending, online>>
  /\ OnGateway

\* the socket's command listeners are registered after the presence write
Listening(s) ==
  /\ sockets[s] # Closed
  /\ sockets[s].open
  /\ sockets[s].pc \in {"drain", "delete", "ready"}

\* the sockets of room user:<userId> held by instance i
LocalRoom(i, userId) ==
  SelectSeq(Room(userId), LAMBDA t : sockets[t].instance = i)

\* A mutant of the typing relay: the published event is also handed to the
\* gateway's subscriber, which relays it as user_typing.
Typing_Relayed(s, receiverId, typing) ==
  /\ Listening(s)
  /\ LET data == [userId |-> sockets[s].userId, typing |-> typing]
         room == LocalRoom(sockets[s].instance, receiverId)
     IN /\ emitted' = [k \in DOMAIN room |-> Emit(room[k], "user_typing", data)]
        /\ published' = <<Event("typing", receiverId, data)>>
        /\ inflight' = Append(inflight, Event("user_typing", receiverId, data))
  /\ response' = NoResponse
  /\ UNCHANGED <<messages, proc, usedIds, nSends, nPatches, nMarks, queued,
                 warned, client, workerInbox, subscribed, sockets, nConnects,
                 drained, online, pending, workers, receipts>>

\* socket.on('typing_start' / 'typing_stop'): io.to(`user:${receiverId}`)
\* reaches the sockets of this instance; the publish on typing:<receiverId>
\* reaches the subscribers of that channel, and subscribeToChannels
\* subscribes to new_message:* and message_status:* only
Typing(s, receiverId, typing) ==
  /\ Listening(s)
  /\ LET data == [userId |-> sockets[s].userId, typing |-> typing]
         room == LocalRoom(sockets[s].instance, receiverId)
     IN /\ emitted' = [k \in DOMAIN room |-> Emit(room[k], "user_typing", data)]
        /\ published' = <<Event("typing", receiverId, data)>>
  /\ response' = NoResponse
  /\ UNCHANGED <<messages, proc, usedIds, nSends, nPatches, nMarks, queued,
                 warned, client, workerInbox, subscribed, inflight, sockets,
                 nConnects, drained, online, pending, workers, receipts>>

\* what a client can send as the argument of mark_delivered / mark_read: an
\* array of message ids, or an object that names another user
Array(items) == [items |-> items]
ClientArguments ==
  {Array(ids) : ids \in SUBSET MsgIds}
    \cup {[userId |-> u, messageIds |-> Array({1})] : u \in Users}

\* Array.isArray(value)
IsArray(value) == DOMAIN value = {"items"}

\* the channel and the confirmation of each command
CommandChannel(command) ==
  IF command = "mark_delivered" THEN "message_delivery" ELSE "message_read"
Confirmation(command) ==
  IF command = "mark_delivered" THEN "delivery_confirmed" ELSE "read_confirmed"

\* A mutant of the command listeners: the userId of the client's argument is
\* forwarded when there is one.
MarkCommand_TrustsClient(s, command, messageIds) ==
  /\ Listening(s)
  /\ Budget
  /\ IsArray(messageIds) => \A id \in messageIds.items : IdChoice(id)
  /\ ~IsArray(messageIds) => \A id \in messageIds.messageIds.items : IdChoice(id)
  /\ nMarks' = nMarks + 1
  /\ LET e == Event(CommandChannel(command), "",
                    IF IsArray(messageIds)
                    THEN [userId |-> sockets[s].userId,
                          messageIds |-> messageIds,
                          status |-> IF command = "mark_delivered"
                                     THEN "DELIVERED" ELSE "READ"]
                    ELSE [userId |-> messageIds.userId,
                          messageIds |-> messageIds.messageIds,
                          status |-> IF command = "mark_delivered"
                                     THEN "DELIVERED" ELSE "READ"])
     IN /\ published' = <<e>>
        /\ workerInbox' = workerInbox \o [k \in 1..workers |-> e]
  /\ emitted' = <<Emit(s, Confirmation(command), [messageIds |-> messageIds])>>
  /\ response' = NoResponse
  /\ UNCHANGED <<messages, proc, usedIds, nSends, nPatches, queued, warned,
                 client, subscribed, inflight, sockets, nConnects, drained, online,
                 pending, workers, receipts>>

\* socket.on('mark_delivered' / 'mark_read'): publish {userId, messageIds,
\* status} on message_delivery / message_read, where userId is the one of
\* socket.data.user, then confirm to the socket; the status worker is the
\* subscriber of both channels
MarkCommand(s, command, messageIds) ==
  /\ Listening(s)
  /\ Budget
  /\ IsArray(messageIds) => \A id \in messageIds.items : IdChoice(id)
  /\ ~IsArray(messageIds) => \A id \in messageIds.messageIds.items : IdChoice(id)
  /\ nMarks' = nMarks + 1
  /\ LET e == Event(CommandChannel(command), "",
                    [userId |-> sockets[s].userId,
                     messageIds |-> messageIds,
                     status |-> IF command = "mark_delivered"
                                THEN "DELIVERED" ELSE "READ"])
     IN /\ published' = <<e>>
        /\ workerInbox' = workerInbox \o [k \in 1..workers |-> e]
  /\ emitted' = <<Emit(s, Confirmation(command), [messageIds |-> messageIds])>>
  /\ response' = NoResponse
  /\ UNCHANGED <<messages, proc, usedIds, nSends, nPatches, queued, warned,
                 client, subscribed, inflight, sockets, nConnects, drained, online,
                 pending, workers, receipts>>

\* another Redis client publishes, on a channel of the status worker, a text
\* that is not JSON or a payload with no userId
ForeignPayloads == {Unparseable, [messageIds |-> Array({})]}
MalformedCommand(channel, payload) ==
  /\ Budget
  /\ nMarks' = nMarks + 1
  /\ published' = <<Event(channel, "", payload)>>
  /\ workerInbox' = workerInbox \o
        [k \in 1..workers |-> Event(channel, "", payload)]
  /\ emitted' = << >>
  /\ response' = NoResponse
  /\ UNCHANGED <<messages, proc, usedIds, nSends, nPatches, queued, warned,
                 client, subscribed, inflight, sockets, nConnects, drained, online,
                 pending, workers, receipts>>

\* another Redis client publishes a text that is not JSON on a channel of
\* the gateway's pattern subscriptions
MalformedEvent(name, userId) ==
  /\ subscribed
  /\ Budget
  /\ nMarks' = nMarks + 1
  /\ published' = <<Event(name, userId, Unparseable)>>
  /\ inflight' = Append(inflight, Event(name, userId, Unparseable))
  /\ emitted' = << >>
  /\ response' = NoResponse
  /\ UNCHANGED <<messages, proc, usedIds, nSends, nPatches, queued, warned,
                 client, subscribed, workerInbox, sockets, nConnects, drained, online,
                 pending, workers, receipts>>

(* ---------------------------------------------------------------------- *)
(* Status worker: startRealtimeSubscriber                                  *)
(* ---------------------------------------------------------------------- *)

\* payload && typeof payload.userId === 'string' &&
\* Array.isArray(payload.messageIds); every userId of the model is a string
isValidPayload(payload) ==
  /\ "userId" \in DOMAIN payload
  /\ "messageIds" \in DOMAIN payload
  /\ IsArray(payload.messageIds)

\* the payload passes JSON.parse and isValidPayload
Accepted(e) == ~ParseFails(e.data) /\ isValidPayload(e.data)

\* the instances of the messaging service that can run side by side
Replicas == {1, 2}

\* startServer of one more instance: startRealtimeSubscriber subscribes its
\* Redis client to message_delivery and message_read; Redis hands every
\* message published on a channel to each of its subscribers
WorkerStart ==
  /\ workers < Cardinality(Replicas)
  /\ workers' = workers + 1
  /\ published' = << >>
  /\ response' = NoResponse
  /\ emitted' = << >>
  /\ UNCHANGED <<messages, proc, usedIds, nSends, nPatches, nMarks, queued,
                 subscribed, inflight, sockets, nConnects, drained, online,
                 pending, client, workerInbox, warned, receipts>>

\* A mutant of the subscriber: a rejected payload ends the subscription.
WorkerDrop_Crashes ==
  /\ workerInbox # << >>
  /\ ~Accepted(Head(workerInbox))
  /\ workerInbox' = << >>
  /\ warned' = TRUE
  /\ published' = << >>
  /\ response' = NoResponse
  /\ emitted' = << >>
  /\ UNCHANGED <<messages, proc, usedIds, nSends, nPatches, nMarks, queued,
                 subscribed, inflight, sockets, nConnects, drained, online,
                 pending, client, workers, receipts>>

\* the subscribe callbacks: JSON.parse throws into the catch, or
\* isValidPayload fails and the callback returns; the payload is logged
WorkerDrop ==
  /\ workerInbox # << >>
  /\ ~Accepted(Head(workerInbox))
  /\ workerInbox' = Tail(workerInbox)
  /\ warned' = TRUE
  /\ published' = << >>
  /\ response' = NoResponse
  /\ emitted' = << >>
  /\ UNCHANGED <<messages, proc, usedIds, nSends, nPatches, nMarks, queued,
                 subscribed, inflight, sockets, nConnects, drained, online,
                 pending, client, workers, receipts>>

\* the subscribe callbacks: messageService.markAsDelivered /
\* markAsRead(payload.messageIds, payload.userId), up to the updateMany
WorkerMark(p) ==
  /\ workerInbox # << >>
  /\ Accepted(Head(workerInbox))
  /\ FreeProc(p)
  /\ workerInbox' = Tail(workerInbox)
  /\ LET e          == Head(workerInbox)
         messageIds == e.data.messageIds.items
         userId     == e.data.userId
         delivery   == e.channel[1] = "message_delivery"
         after      == IF delivery
                       THEN updateManyDelivered(messages, messageIds, userId)
                       ELSE updateManyRead(messages, messageIds, userId)
     IN IF delivery /\ messageIds = {}
        THEN UNCHANGED <<messages, proc>>
        ELSE /\ messages' = after
             /\ proc' = [proc EXCEPT ![p] =
                  [op |-> IF delivery THEN "markAsDelivered" ELSE "markAsRead",
                   pc |-> "notify",
                   messageIds |-> messageIds, userId |-> userId,
                   changed |-> Changed(messages, after),
                   command |-> e]]
  /\ published' = << >>
  /\ response' = NoResponse
  /\ emitted' = << >>
  /\ UNCHANGED <<usedIds, nSends, nPatches, nMarks, queued, warned, client,
                 subscribed, inflight, sockets, nConnects, drained, online,
                 pending, workers, receipts>>

(* ---------------------------------------------------------------------- *)
(* ResilientWebSocketClient                                                *)
(*                                                                         *)
(* The client's methods and listeners are synchronous: each is one step.   *)
(* A socket of socket.io-client is "connecting", "connected",              *)
(* "disconnected" (closed by the network or the server, its listeners      *)
(* still attached), "closing" (closed by socket.disconnect() while it was  *)
(* connecting; a connect_error may still arrive) or "destroyed".  A socket *)
(* that connect() has replaced keeps its listeners and its events.         *)
(* ---------------------------------------------------------------------- *)

\* options.maxReconnectAttempts (10 by default)
maxReconnectAttempts == 2

\* the run may take one more call of the user or event of the network
ClientBudget == client.events < MaxOps + 3

\* the reasons of a 'disconnect' that socket.io-client reports by itself
Reasons == {"transport close", "io server disconnect"}

\* this.options.onX(...)
Call(c, callback) == [c EXCEPT !.called = Append(@, callback)]

\* clearReconnectTimer(): clearTimeout of a timer that already ran does
\* nothing
clearReconnectTimer(c) ==
  IF c.reconnectTimer # 0
  THEN [c EXCEPT !.timers = {t \in @ : t.id # c.reconnectTimer},
                 !.reconnectTimer = 0]
  ELSE c

\* setTimeout(callback, delay)
setTimeout(c, kind) ==
  [c EXCEPT !.nTimers = @ + 1,
            !.timers = @ \cup {[id |-> c.nTimers + 1, kind |-> kind]}]

\* Math.min(a, b)
Min(a, b) == IF a <= b THEN a ELSE b

\* A mutant of the backoff: the delay is not capped.
backoff_Uncapped(options, reconnectAttempts) ==
  options.reconnectInterval * 2 ^ (reconnectAttempts - 1)

\* const delay = Math.min(reconnectInterval * Math.pow(2, reconnectAttempts - 1),
\*                        maxReconnectInterval)
backoff(options, reconnectAttempts) ==
  Min(options.reconnectInterval * 2 ^ (reconnectAttempts - 1),
      options.maxReconnectInterval)

\* A mutant of attemptReconnect: the limit is not checked.
attemptReconnect_NoLimit(c) ==
  LET c1 == clearReconnectTimer(c)
      c2 == setTimeout(Call(c1, "onReconnect"), "reconnect")
  IN [c2 EXCEPT !.reconnectAttempts = @ + 1, !.reconnectTimer = c2.nTimers,
                !.delay = backoff(c.options, c1.reconnectAttempts + 1)]

\* attemptReconnect()
attemptReconnect(c) ==
  LET c1 == clearReconnectTimer(c)
      c2 == setTimeout(Call(c1, "onReconnect"), "reconnect")
  IN IF c1.reconnectAttempts >= maxReconnectAttempts
     THEN Call(c1, "onReconnectFailed")
     ELSE [c2 EXCEPT !.reconnectAttempts = @ + 1,
                     !.reconnectTimer = c2.nTimers,
                     !.delay = backoff(c.options, c1.reconnectAttempts + 1)]

\* socket.on('connect')
onConnect(c) ==
  Call(clearReconnectTimer([c EXCEPT !.reconnectAttempts = 0]), "onConnect")

\* socket.on('disconnect')
onDisconnect(c, reason) ==
  LET c1 == Call(c, "onDisconnect")
  IN IF ~c1.isIntentionalDisconnect /\ reason # "io server disconnect"
     THEN attemptReconnect(c1) ELSE c1

\* socket.on('connect_error')
onConnectError(c) ==
  LET c1 == Call(c, "onError")
  IN IF ~c1.isIntentionalDisconnect THEN attemptReconnect(c1) ELSE c1

\* A mutant of disconnect: the reconnect timer is left pending.
disconnect_KeepsTimer(c) ==
  LET c1 == [c EXCEPT !.isIntentionalDisconnect = TRUE]
      n  == c1.socket
  IN IF n = 0 THEN c1
     ELSE IF c1.socks[n] = "connected"
     THEN [onDisconnect([c1 EXCEPT !.socks[n] = "destroyed"],
                        "io client disconnect") EXCEPT !.socket = 0]
     ELSE [c1 EXCEPT !.socks[n] = IF @ = "connecting" THEN "closing"
                                  ELSE "destroyed",
                     !.socket = 0]

\* disconnect(): socket.disconnect() emits 'disconnect' (io client
\* disconnect) at once if the socket is connected, and no event otherwise
disconnect(c) ==
  LET c1 == clearReconnectTimer([c EXCEPT !.isIntentionalDisconnect = TRUE])
      n  == c1.socket
  IN IF n = 0 THEN c1
     ELSE IF c1.socks[n] = "connected"
     THEN [onDisconnect([c1 EXCEPT !.socks[n] = "destroyed"],
                        "io client disconnect") EXCEPT !.socket = 0]
     ELSE [c1 EXCEPT !.socks[n] = IF @ = "connecting" THEN "closing"
                                  ELSE "destroyed",
                     !.socket = 0]

\* connect(): io(url, ...) creates a socket that starts connecting
connect(c) ==
  IF c.socket # 0 /\ c.socks[c.socket] = "connected" THEN c
  ELSE [c EXCEPT !.isIntentionalDisconnect = FALSE,
                 !.socks = Append(@, "connecting"),
                 !.socket = Len(c.socks) + 1]

\* the callback of the reconnect timer: this.socket.connect() opens a socket
\* that is closed, and does nothing to one that is connecting or connected
reconnect(c) ==
  IF ~c.isIntentionalDisconnect /\ c.socket # 0
  THEN [c EXCEPT !.socks[c.socket] = IF @ = "disconnected" THEN "connecting"
                                     ELSE @]
  ELSE c

\* a step of the client: the callbacks invoked are those of this step
ClientStep(c) ==
  /\ client' = c
  /\ UNCHANGED <<messages, published, pending, online, proc, response,
                 usedIds, nSends, nPatches, nMarks, subscribed, inflight,
                 sockets, emitted, nConnects, queued, drained, workerInbox,
                 warned, workers, receipts>>

\* the user's call or the network's event that starts the step
Begin == [client EXCEPT !.called = << >>, !.events = @ + 1]

\* the user calls connect()
UserConnect ==
  /\ ClientBudget
  /\ ClientStep(connect(Begin))

\* the user calls disconnect()
UserDisconnect ==
  /\ ClientBudget
  /\ ClientStep(disconnect(Begin))

\* the user calls resetReconnectAttempts()
UserReset ==
  /\ ClientBudget
  /\ client.reconnectAttempts # 0
  /\ ClientStep([Begin EXCEPT !.reconnectAttempts = 0])

\* the user calls updateToken(newToken): with a socket, disconnect(), then
\* setTimeout(() => this.connect(), 100)
UserUpdateToken ==
  /\ ClientBudget
  /\ ClientStep(IF client.socket # 0
                THEN setTimeout(disconnect(Begin), "connect")
                ELSE Begin)

\* socket n connects
SocketConnects(n) ==
  /\ ClientBudget
  /\ client.socks[n] = "connecting"
  /\ ClientStep(onConnect([Begin EXCEPT !.socks[n] = "connected"]))

\* socket n fails to connect; the error may reach a socket that disconnect()
\* closed while it was connecting
SocketConnectError(n) ==
  /\ ClientBudget
  /\ client.socks[n] \in {"connecting", "closing"}
  /\ ClientStep(onConnectError(
        [Begin EXCEPT !.socks[n] = IF @ = "closing" THEN "destroyed"
                                   ELSE "disconnected"]))

\* socket n loses its connection, or the server closes it
SocketDisconnects(n, reason) ==
  /\ ClientBudget
  /\ client.socks[n] = "connected"
  /\ ClientStep(onDisconnect([Begin EXCEPT !.socks[n] = "disconnected"],
                             reason))

\* socket.on('error'): an authentication error stops the client
SocketError(n, authentication) ==
  /\ ClientBudget
  /\ client.socks[n] \in {"connecting", "connected"}
  /\ ClientStep(Call(IF authentication
                     THEN disconnect([Begin EXCEPT
                                        !.isIntentionalDisconnect = TRUE])
                     ELSE Begin,
                     "onError"))

\* a timer runs: the reconnect callback, or updateToken's connect()
TimerFires(t) ==
  /\ t \in client.timers
  /\ LET c == [client EXCEPT !.called = << >>, !.timers = @ \ {t}]
     IN ClientStep(IF t.kind = "reconnect" THEN reconnect(c) ELSE connect(c))

ClientSteps ==
  \/ UserConnect
  \/ UserDisconnect
  \/ UserReset
  \/ UserUpdateToken
  \/ \E n \in 1..(MaxOps + 3) : n <= Len(client.socks) /\ SocketConnects(n)
  \/ \E n \in 1..(MaxOps + 3) : n <= Len(client.socks) /\ SocketConnectError(n)
  \/ \E n \in 1..(MaxOps + 3), reason \in Reasons :
        n <= Len(client.socks) /\ SocketDisconnects(n, reason)
  \/ \E n \in 1..(MaxOps + 3), authentication \in BOOLEAN :
        n <= Len(client.socks) /\ SocketError(n, authentication)
  \/ \E t \in [id : 1..(MaxOps + 3), kind : {"reconnect", "connect"}] :
        TimerFires(t)

\* The client: the user's calls race the events of the client's sockets and
\* its timers.
NextClient == ClientSteps

SpecClient == Init /\ [][NextClient]_vars

\* the reconnectInterval and maxReconnectInterval a caller passes to the
\* constructor, in units of time
ClientOptions == [reconnectInterval : 0..3, maxReconnectInterval : 0..4]

\* new ResilientWebSocketClient({ ...options })
InitBackoff ==
  /\ Constructed
  /\ \E options \in ClientOptions :
        client = [NewClient EXCEPT !.options = options]
  /\ workers = 0

\* Backoff: a client built with any intervals connects once; its socket
\* connects, fails to connect and loses its connection, and its reconnect
\* timers run.
NextBackoff ==
  \/ UserConnect
  \/ \E n \in 1..(MaxOps + 3) : n <= Len(client.socks) /\ SocketConnects(n)
  \/ \E n \in 1..(MaxOps + 3) : n <= Len(client.socks) /\ SocketConnectError(n)
  \/ \E n \in 1..(MaxOps + 3), reason \in Reasons :
        n <= Len(client.socks) /\ SocketDisconnects(n, reason)
  \/ \E t \in [id : 1..(MaxOps + 3), kind : {"reconnect", "connect"}] :
        TimerFires(t)

SpecBackoff == InitBackoff /\ [][NextBackoff]_vars

(* ---------------------------------------------------------------------- *)
(* Specifications                                                          *)
(* ---------------------------------------------------------------------- *)
SendSteps ==
  \/ \E p \in Procs : SendResolve(p)
  \/ \E p \in Procs : SendCreate(p)
  \/ \E p \in Procs : SendPublish(p)
  \/ \E p \in Procs : SendReadPresence(p)
  \/ \E p \in Procs : SendEnqueue(p)

PatchSteps ==
  \/ \E p \in Procs, u \in Users, id \in MsgIds, st \in Statuses :
        PatchFind(p, u, id, st)
  \/ \E p \in Procs : PatchUpdate(p)
  \/ \E p \in Procs : PatchPublish(p)

MarkSteps ==
  \/ \E p \in Procs, ids \in SUBSET MsgIds, u \in Users :
        MarkDeliveredUpdate(p, ids, u)
  \/ \E p \in Procs, ids \in SUBSET MsgIds, u \in Users :
        MarkReadUpdate(p, ids, u)
  \/ \E p \in Procs : MarkNotify(p)

\* Ingestion: POST /messages requests race each other and status requests.
NextSend ==
  \/ \E p \in Procs, s \in Users, r \in Usernames, t \in Texts, c \in ClientIds :
        SendLookup(p, s, r, t, c)
  \/ SendSteps
  \/ PatchSteps

SpecSend == Init /\ [][NextSend]_vars

Quiet == \A p \in Procs : ~Busy(p)
NoSendInFlight == \A p \in Procs : proc[p].op # "send"

\* Status synchronisation: the status operations race each other; a message
\* is sent while no other request is in flight.
NextStatus ==
  \/ \E p \in Procs, s \in Users, r \in Usernames, t \in Texts, c \in ClientIds :
        Quiet /\ SendLookup(p, s, r, t, c)
  \/ SendSteps
  \/ NoSendInFlight /\ PatchSteps
  \/ NoSendInFlight /\ MarkSteps

SpecStatus == Init /\ [][NextStatus]_vars

GatewaySteps ==
  \/ \E s \in Sockets, u \in Users : Connect(s, u)
  \/ \E s \in Sockets : SetPresence(s)
  \/ \E s \in Sockets : DrainRead(s)
  \/ \E s \in Sockets : DrainDelete(s)
  \/ \E s \in Sockets : Disconnect(s)
  \/ \E s \in Sockets : ClearPresence(s)
  \/ RelayNext

\* the client sends a new message (no retry) to a registered user
FirstSend(receiverUsername, clientMessageId) ==
  /\ ResolveUsername(receiverUsername) # NoUser
  /\ clientMessageId = usedIds + 1

\* Offline delivery: once the gateway runs, POST /messages requests with new
\* messages, one at a time, race the gateway's connections, drains,
\* disconnections and relays.
NextOffline ==
  \/ GatewayStart
  \/ \E p \in Procs, s \in Users, r \in Usernames, t \in Texts, c \in ClientIds :
        subscribed /\ Quiet /\ FirstSend(r, c) /\ SendLookup(p, s, r, t, c)
  \/ SendSteps
  \/ GatewaySteps

SpecOffline == Init /\ [][NextOffline]_vars

FaultSteps ==
  \/ \E p \in Procs : SendCreateFails(p)
  \/ \E p \in Procs : SendPublishFails(p)
  \/ \E p \in Procs : SendPresenceFails(p)
  \/ \E p \in Procs, failed \in {"rPush", "expire"} : SendEnqueueFails(p, failed)

\* Unavailable stores: POST /messages requests, one at a time, any awaited
\* store or Redis command of which may reject.
NextFaults ==
  \/ \E p \in Procs, s \in Users, r \in Usernames, t \in Texts, c \in ClientIds :
        Quiet /\ SendLookup(p, s, r, t, c)
  \/ SendSteps
  \/ FaultSteps

SpecFaults == Init /\ [][NextFaults]_vars

\* Unavailable store under status updates: PATCH requests race each other
\* over messages sent one at a time; the store may reject an update.
NextPatchFaults ==
  \/ \E p \in Procs, s \in Users, r \in Usernames, t \in Texts, c \in ClientIds :
        Quiet /\ FirstSend(r, c) /\ SendLookup(p, s, r, t, c)
  \/ SendSteps
  \/ NoSendInFlight /\ PatchSteps
  \/ \E p \in Procs : PatchUpdateFails(p)

SpecPatchFaults == Init /\ [][NextPatchFaults]_vars

\* the connection handler of a socket, from the presence write to the close
HandlerSteps ==
  \/ \E s \in Sockets : SetPresence(s)
  \/ \E s \in Sockets : DrainRead(s)
  \/ \E s \in Sockets : Disconnect(s)
  \/ \E s \in Sockets : ClearPresence(s)

\* Sessions: once the gateway runs, clients with any token connect to its
\* instances, signal typing and disconnect.  No message is sent, so the
\* drains find the Offline Queues empty.
NextSession ==
  \/ GatewayStart
  \/ \E s \in Sockets, i \in Instances, token \in Tokens : Handshake(s, i, token)
  \/ HandlerSteps
  \/ \E s \in Sockets, receiverId \in Users, typing \in BOOLEAN :
        Typing(s, receiverId, typing)

SpecSession == Init /\ [][NextSession]_vars

WorkerSteps ==
  \/ WorkerDrop
  \/ \E p \in Procs : WorkerMark(p)
  \/ \E p \in Procs : MarkNotify(p)

\* Receipts: new messages are sent, one at a time, before the gateway
\* starts; then clients with a valid token connect to one instance, stay
\* connected and issue mark_delivered / mark_read commands, the status
\* worker serves them, and other Redis clients publish malformed payloads.
NextReceipts ==
  \/ \E p \in Procs, s \in Users, r \in Usernames, t \in Texts, c \in ClientIds :
        ~subscribed /\ Quiet /\ FirstSend(r, c) /\ SendLookup(p, s, r, t, c)
  \/ SendSteps
  \/ GatewayStart
  \/ \E s \in Sockets, token \in {"token-A", "token-B"} : Handshake(s, 1, token)
  \/ \E s \in Sockets : SetPresence(s)
  \/ \E s \in Sockets : DrainRead(s)
  \/ \E s \in Sockets : DrainDelete(s)
  \/ RelayNext
  \/ \E s \in Sockets, command \in {"mark_delivered", "mark_read"},
        messageIds \in ClientArguments : MarkCommand(s, command, messageIds)
  \/ WorkerSteps
  \/ \E channel \in {"message_delivery", "message_read"},
        payload \in ForeignPayloads : MalformedCommand(channel, payload)
  \/ \E name \in {"new_message", "message_status"}, u \in Users :
        MalformedEvent(name, u)

SpecReceipts == InitServing /\ [][NextReceipts]_vars

\* Replicas: as Receipts, with the instances of the messaging service
\* starting one after the other, and one mark_delivered / mark_read command
\* in the run.
NextReplicas ==
  \/ \E p \in Procs, s \in Users, r \in Usernames, t \in Texts, c \in ClientIds :
        ~subscribed /\ Quiet /\ FirstSend(r, c) /\ SendLookup(p, s, r, t, c)
  \/ SendSteps
  \/ WorkerStart
  \/ GatewayStart
  \/ \E s \in Sockets, token \in {"token-A", "token-B"} : Handshake(s, 1, token)
  \/ \E s \in Sockets : SetPresence(s)
  \/ \E s \in Sockets : DrainRead(s)
  \/ \E s \in Sockets : DrainDelete(s)
  \/ RelayNext
  \/ \E s \in Sockets, command \in {"mark_delivered", "mark_read"},
        messageIds \in ClientArguments :
        nMarks = 0 /\ MarkCommand(s, command, messageIds)
  \/ WorkerSteps

SpecReplicas == Init /\ [][NextReplicas]_vars

\* the steps of the connection handler of a socket that stays open
DrainSteps ==
  \/ \E s \in Sockets : SetPresence(s)
  \/ \E s \in Sockets : DrainRead(s)
  \/ \E s \in Sockets : DrainDelete(s)

\* Acknowledgements: the gateway and one instance of the messaging service
\* start in any order; new messages are sent before the gateway starts;
\* sessions issue mark_delivered / mark_read commands.
NextAck ==
  \/ \E p \in Procs, s \in Users, r \in Usernames, t \in Texts, c \in ClientIds :
        ~subscribed /\ Quiet /\ FirstSend(r, c) /\ SendLookup(p, s, r, t, c)
  \/ SendSteps
  \/ workers = 0 /\ WorkerStart
  \/ GatewayStart
  \/ \E s \in Sockets, token \in {"token-A", "token-B"} : Handshake(s, 1, token)
  \/ DrainSteps
  \/ RelayNext
  \/ \E s \in Sockets, command \in {"mark_delivered", "mark_read"},
        messageIds \in ClientArguments : MarkCommand(s, command, messageIds)
  \/ WorkerSteps

\* The event loop of each process runs every callback that is ready: a
\* request that was accepted is served to its end, a service that is
\* starting subscribes, a payload Redis handed over is taken.
FairAck ==
  /\ WF_vars(SendSteps)
  /\ WF_vars(workers = 0 /\ WorkerStart)
  /\ WF_vars(DrainSteps)
  /\ WF_vars(RelayNext)
  /\ WF_vars(WorkerSteps)

SpecAck == Init /\ [][NextAck]_vars /\ FairAck

\* Relay: once the gateway runs, new messages are sent one at a time to
\* receivers with and without a session; clients with a valid token connect
\* and stay connected; PATCH requests and markAsDelivered / markAsRead calls
\* change the stored statuses; the gateway drains the Offline Queues and
\* relays the events.
NextRelay ==
  \/ \E p \in Procs, s \in Users, r \in Usernames, t \in Texts, c \in ClientIds :
        subscribed /\ Quiet /\ FirstSend(r, c) /\ SendLookup(p, s, r, t, c)
  \/ SendSteps
  \/ GatewayStart
  \/ \E s \in Sockets, token \in {"token-A", "token-B"} : Handshake(s, 1, token)
  \/ \E s \in Sockets : SetPresence(s)
  \/ \E s \in Sockets : DrainRead(s)
  \/ \E s \in Sockets : DrainDelete(s)
  \/ RelayNext
  \/ \E p \in Procs, u \in Users, id \in MsgIds, st \in Statuses :
        Quiet /\ PatchFind(p, u, id, st)
  \/ \E p \in Procs : PatchUpdate(p)
  \/ \E p \in Procs : PatchPublish(p)
  \/ \E p \in Procs, ids \in SUBSET MsgIds, u \in Users :
        Quiet /\ MarkDeliveredUpdate(p, ids, u)
  \/ \E p \in Procs, ids \in SUBSET MsgIds, u \in Users :
        Quiet /\ MarkReadUpdate(p, ids, u)
  \/ \E p \in Procs : MarkNotify(p)

SpecRelay == Init /\ [][NextRelay]_vars

(* ---------------------------------------------------------------------- *)
(* Properties                                                              *)
(* ---------------------------------------------------------------------- *)
Stored(clientMessageId) ==
  \E i \in DOMAIN messages : messages[i].clientMessageId = clientMessageId

RowOf(clientMessageId) ==
  messages[CHOOSE i \in DOMAIN messages :
             messages[i].clientMessageId = clientMessageId]

\* the request a step has just accepted: answered at once, or now in flight
Issued ==
  IF proc' = proc THEN response'.req
  ELSE proc'[CHOOSE p \in Procs : proc'[p] # proc[p]].req

SendIssued  == nSends' = nSends + 1
PatchIssued == nPatches' = nPatches + 1

\* a send handler that had created its row ends
SendCompletes(p) ==
  /\ proc[p].op = "send" /\ proc[p].pc \in {"presence", "enqueue"}
  /\ proc'[p] = Idle

\* a markAsDelivered / markAsRead call publishes its receipts and ends
NotifyStep(p) ==
  /\ proc[p].op \in {"markAsDelivered", "markAsRead"} /\ proc[p].pc = "notify"
  /\ proc'[p] = Idle

\* C1: the Message Store never holds two Messages with the same
\* clientMessageId, however the sendMessage requests interleave.
C1_OneMessagePerClientMessageId ==
  \A i, j \in DOMAIN messages :
     messages[i].clientMessageId = messages[j].clientMessageId => i = j

\* a request is about to create a row whose clientMessageId another request,
\* which passed the lookup at the same time, has already stored
C1_Witness ==
  \E p \in Procs :
     /\ proc[p].op = "send" /\ proc[p].pc = "create"
     /\ \E i \in DOMAIN messages :
           messages[i].clientMessageId = proc[p].req.clientMessageId

\* C2: a POST /messages whose clientMessageId is already stored answers 200
\* with the replay indicator and exactly the stored Message, and stores
\* nothing; 201 is the answer of the request that created the row, and
\* carries the row it created.
C2_ReplayAnswersStoredMessage ==
  [][ /\ SendIssued /\ Stored(Issued.clientMessageId) =>
           /\ proc' = proc
           /\ response' = [op |-> "send", req |-> Issued, code |-> 200,
                           replay |-> TRUE,
                           data |-> RowOf(Issued.clientMessageId)]
           /\ messages' = messages
      /\ \A p \in Procs : SendCompletes(p) =>
           /\ response'.code = 201 /\ ~response'.replay
           /\ response'.data.id \in DOMAIN messages
           /\ response'.data = [messages[response'.data.id] EXCEPT !.status = "sent"]
           /\ response'.data.clientMessageId = response'.req.clientMessageId
           /\ response'.data.senderId = response'.req.senderId
    ]_vars

\* the second POST of a clientMessageId has been answered as a replay
C2_Witness ==
  /\ response.op = "send" /\ response.code = 200 /\ response.replay
  /\ nSends >= 2
  /\ response.data.senderId # response.req.senderId

\* C3: a sendMessage request with a resolvable receiver never fails; it
\* answers 200 or 201 with the Message of its clientMessageId, also when
\* another request with the same clientMessageId is processed concurrently.
C3_ConcurrentSendsBothSucceed ==
  (response.op = "send"
     /\ ResolveUsername(response.req.receiverUsername) # NoUser)
  => /\ response.code \in {200, 201}
     /\ response.data.clientMessageId = response.req.clientMessageId

\* C4: a replayed send changes no stored Message, publishes nothing and
\* appends nothing to any Offline Queue.
C4_ReplayChangesNothing ==
  [][ (SendIssued /\ proc' = proc) =>
        /\ messages' = messages
        /\ published' = << >>
        /\ pending' = pending
    ]_vars

\* a replay has returned a Message whose status had moved on since it was sent
C4_Witness ==
  /\ response.op = "send" /\ response.code = 200 /\ response.replay
  /\ response.data.status # "sent"

\* C5: no step lowers the stored status of a message in the order
\* sent < delivered < read.
C5_StatusNeverDecreases ==
  [][ \A i \in DOMAIN messages :
        Rank(messages'[i].status) >= Rank(messages[i].status)
    ]_vars

\* C6: once a message is stored as read, no status update stores it as
\* delivered: delivered is never written after read.
C6_NoDeliveredAfterRead ==
  [][ \A i \in DOMAIN messages :
        messages[i].status = "read" => messages'[i].status # "delivered"
    ]_vars

\* C7: a PATCH for delivered or read by a caller who is not the receiver of
\* the message is answered 403 at once; it changes no stored status and
\* publishes no event.
C7_NonReceiverRejected ==
  [][ (/\ PatchIssued
       /\ Issued.id \in DOMAIN messages
       /\ messages[Issued.id].receiverId # Issued.userId
       /\ Issued.status \in {"delivered", "read"})
      => /\ proc' = proc
         /\ response'.op = "patch" /\ response'.code = 403
         /\ messages' = messages
         /\ published' = << >>
    ]_vars

\* the sender of a message has been refused to mark it delivered or read
C7_Witness ==
  /\ response.op = "patch" /\ response.code = 403
  /\ response.req.id \in DOMAIN messages
  /\ messages[response.req.id].senderId = response.req.userId

\* C8: a markDelivered / markRead call publishes as many status-events as
\* there are distinct senders among the messages it changed.
C8_OneEventPerAffectedSender ==
  [][ \A p \in Procs : NotifyStep(p) =>
        Len(published')
          = Cardinality({messages[i].senderId : i \in proc[p].changed})
    ]_vars

\* the requested messages of the caller, as the call's findMany sees them
Covered(p) ==
  {i \in DOMAIN messages :
     i \in proc[p].messageIds /\ messages[i].receiverId = proc[p].userId}

Ids(e) == {e.data.messageIds[k] : k \in DOMAIN e.data.messageIds}

\* C9: every status-event of a markDelivered / markRead call goes to
\* message_status:<senderId> and lists, once each, exactly the covered
\* messages of that sender; no sender gets two events, and every covered
\* message (so every changed one) is listed in the event of its sender.
C9_ReceiptListsTheSendersMessages ==
  [][ \A p \in Procs : NotifyStep(p) =>
        /\ \A k \in DOMAIN published' :
              LET e == published'[k]
              IN /\ e.channel[1] = "message_status"
                 /\ e.data.status =
                      (IF proc[p].op = "markAsDelivered" THEN "delivered"
                       ELSE "read")
                 /\ Ids(e) =
                      {i \in Covered(p) : messages[i].senderId = e.channel[2]}
                 /\ Len(e.data.messageIds) = Cardinality(Ids(e))
                 /\ \A l \in DOMAIN published' :
                       published'[l].channel = e.channel => l = k
        /\ \A i \in Covered(p) \cup proc[p].changed :
              \E k \in DOMAIN published' :
                 /\ published'[k].channel[2] = messages[i].senderId
                 /\ i \in Ids(published'[k])
    ]_vars

\* a receipt listing two messages of one sender has been published
C9_Witness ==
  \E k \in DOMAIN published :
     /\ published[k].channel[1] = "message_status"
     /\ "messageIds" \in DOMAIN published[k].data
     /\ Len(published[k].data.messageIds) = 2

\* C10: markDelivered sets to delivered exactly the listed messages of the
\* caller that are sent, and leaves every other message as it is.
C10_MarkDeliveredFrame ==
  [][ /\ \A p \in Procs :
           (proc[p] = Idle /\ proc'[p] # Idle /\ proc'[p].op = "markAsDelivered") =>
              /\ DOMAIN messages' = DOMAIN messages
              /\ \A i \in DOMAIN messages :
                    messages'[i] =
                      IF /\ i \in proc'[p].messageIds
                         /\ messages[i].receiverId = proc'[p].userId
                         /\ messages[i].status = "sent"
                      THEN [messages[i] EXCEPT !.status = "delivered"]
                      ELSE messages[i]
      /\ \A p \in Procs :
           (NotifyStep(p) /\ proc[p].op = "markAsDelivered") =>
              messages' = messages
    ]_vars

\* a markDelivered call has changed a listed message and left another listed
\* message untouched
C10_Witness ==
  \E p \in Procs :
     /\ proc[p].op = "markAsDelivered" /\ proc[p].pc = "notify"
     /\ proc[p].changed # {}
     /\ (proc[p].messageIds \cap DOMAIN messages) \ proc[p].changed # {}

\* C11: markDelivered notifies only for the messages it changed: a message
\* that was already delivered or read when the call ran is listed in none
\* of the status-events the call publishes.
C11_NoEventForUnchangedMessages ==
  [][ \A p \in Procs :
        (NotifyStep(p) /\ proc[p].op = "markAsDelivered") =>
           \A k \in DOMAIN published' :
              Ids(published'[k]) \subseteq proc[p].changed
    ]_vars

\* a markDelivered / markRead call updates rows or publishes its receipts
MarkStep(p) ==
  \/ proc[p] = Idle /\ proc'[p] # Idle
       /\ proc'[p].op \in {"markAsDelivered", "markAsRead"}
  \/ NotifyStep(p)

\* C12: when a markRead call completes, every listed message of the caller
\* is stored as read; and no step of markDelivered or markRead changes a
\* message that is stored as read.
C12_MarkReadCompletesWithRead ==
  [][ /\ \A p \in Procs :
           (NotifyStep(p) /\ proc[p].op = "markAsRead") =>
              \A i \in Covered(p) : messages'[i].status = "read"
      /\ \A p \in Procs : MarkStep(p) =>
           \A i \in DOMAIN messages :
              messages[i].status = "read" => messages'[i] = messages[i]
    ]_vars

\* the send handler p takes a step from position pc
SendAt(p, pc) ==
  proc[p].op = "send" /\ proc[p].pc = pc /\ proc'[p] # proc[p]

\* the fields of the delivery payload of a newly stored message
FirstPayload(message) ==
  [id |-> message.id, senderId |-> message.senderId,
   receiverId |-> message.receiverId,
   encryptedText |-> message.encryptedText, status |-> "sent"]

\* C13: on first ingestion the send publishes the payload to
\* new_message:<receiverId>, then reads the receiver's presence key; it
\* appends the payload to pending:<receiverId> if and only if the key was
\* absent when it was read, and what it appends is the payload it published.
\* Nothing else appends to an Offline Queue.
C13_QueuedIffAbsentWhenRead ==
  [][ /\ \A p \in Procs :
           LET message == proc[p].message
               r       == message.receiverId
           IN /\ SendAt(p, "publish") =>
                   /\ published' = <<[channel |-> <<"new_message", r>>,
                                      data |-> FirstPayload(message)]>>
                   /\ pending' = pending
              /\ SendAt(p, "presence") =>
                   /\ pending' = pending
                   /\ online[r] => proc'[p] = Idle
                   /\ ~online[r] =>
                        proc'[p].pc = "enqueue" /\ proc'[p].message = message
              /\ SendAt(p, "enqueue") =>
                   pending' = [pending EXCEPT ![r] =
                                 Append(@, FirstPayload(message))]
      /\ \A u \in Users :
           Len(pending'[u]) > Len(pending[u]) =>
              \E p \in Procs :
                 SendAt(p, "enqueue") /\ proc[p].message.receiverId = u
    ]_vars

\* a send has answered 201 without queueing, its receiver being online, and
\* an earlier message of a then-offline receiver has been queued
C13_Witness ==
  /\ response.op = "send" /\ response.code = 201
  /\ online[response.data.receiverId]
  /\ response.data.id \notin queued
  /\ queued # {}

\* the connection handler of socket s deletes the Offline Queue it has read
DeleteStep(s) ==
  /\ sockets[s].pc = "delete"
  /\ sockets'[s] = Closed \/ sockets'[s].pc # "delete"

\* C14: the drain is atomic with respect to enqueues: every payload that is
\* in pending:<u> when the drain deletes the list has been read and relayed
\* by that drain, or is still in the list afterwards.
C14_DrainDeletesOnlyWhatItRead ==
  [][ \A s \in Sockets : DeleteStep(s) =>
        LET u    == sockets[s].userId
            read == sockets[s].pendingMessages
        IN \A k \in DOMAIN pending[u] :
              \/ \E j \in DOMAIN read : read[j] = pending[u][k]
              \/ \E j \in DOMAIN pending'[u] : pending'[u][j] = pending[u][k]
    ]_vars

\* message id is in the Offline Queue of its receiver
InQueue(id) ==
  \E k \in DOMAIN pending[messages[id].receiverId] :
     pending[messages[id].receiverId][k].id = id

\* C15: a message sent while its receiver's presence key is absent is put
\* in the receiver's Offline Queue and leaves it only by the drain of a
\* session of the receiver that receives it: at every moment a message that
\* was queued is still in pending:<receiver> or has been written to an open
\* socket of the receiver by a drain.
C15_QueuedUntilDrainedToReceiver ==
  \A id \in queued : InQueue(id) \/ id \in drained

\* the connection handler of socket s reads the Offline Queue and relays it
DrainStep(s) ==
  /\ sockets[s].pc = "drain"
  /\ sockets'[s] = Closed \/ sockets'[s].pc # "drain"

\* C16: the Offline Queue is first-in first-out: an enqueue puts its payload
\* behind the payloads already in the list, and a drain writes the payloads
\* of the list to its socket as new_message events from the first enqueued
\* to the last.
C16_DrainRelaysInEnqueueOrder ==
  [][ /\ \A u \in Users :
           \/ pending'[u] = pending[u]
           \/ pending'[u] = << >>
           \/ /\ Len(pending'[u]) = Len(pending[u]) + 1
              /\ SubSeq(pending'[u], 1, Len(pending[u])) = pending[u]
      /\ \A s \in Sockets : DrainStep(s) =>
           LET q == pending[sockets[s].userId]
           IN emitted' = IF sockets[s].open
                         THEN [k \in DOMAIN q |->
                                 [socket |-> s, event |-> "new_message",
                                  data |-> q[k]]]
                         ELSE << >>
    ]_vars

\* a drain has written two queued messages to its socket
C16_Witness ==
  /\ Len(emitted) = 2
  /\ emitted[1].socket = emitted[2].socket
  /\ emitted[1].event = "new_message"
  /\ emitted[1].data.id \in drained /\ emitted[2].data.id \in drained
  /\ emitted[1].data.id # emitted[2].data.id

\* the gateway's subscriber relays an event of the Fanout Bus
RelayStep == Len(inflight') < Len(inflight)

\* C17: a session drains before it takes live events: no new_message of the
\* Fanout Bus is relayed to a socket whose connection handler has not yet
\* relayed the payloads of its drain.
C17_NoLiveMessageBeforeDrain ==
  [][ RelayStep =>
        \A k \in DOMAIN emitted' :
           emitted'[k].event = "new_message" =>
              sockets[emitted'[k].socket].pc \in {"delete", "ready"}
    ]_vars

\* C18: whatever happens in the offline-queue step of a send (the presence
\* read, the append or the expiry refresh may fail), the send answers 201
\* with the Message it persisted, and the message stays stored as sent.
C18_OfflineQueueFailureStillCreated ==
  [][ \A p \in Procs :
        (SendAt(p, "presence") \/ SendAt(p, "enqueue")) =>
           LET message == proc[p].message
           IN /\ messages' = messages
              /\ messages[message.id].status = "sent"
              /\ \/ proc'[p].op = "send" /\ proc'[p].pc = "enqueue"
                 \/ /\ proc'[p] = Idle
                    /\ response' = [op |-> "send", req |-> proc[p].req,
                                    code |-> 201, replay |-> FALSE,
                                    data |-> message]
                    /\ message = messages[message.id]
    ]_vars

\* a send has answered 201 although its payload was not queued for a
\* receiver without presence key: its offline-queue step failed
C18_Witness ==
  /\ response.op = "send" /\ response.code = 201
  /\ ~online[response.data.receiverId]
  /\ response.data.id \notin queued

\* C19: a failure of the fanout publish is swallowed: from the publish of
\* its persisted Message a send always goes on to the offline-queue step
\* (and so to the success response), whether the publish succeeds or fails.
C19_PublishFailureSwallowed ==
  [][ \A p \in Procs :
        SendAt(p, "publish") =>
           /\ proc'[p].op = "send" /\ proc'[p].pc = "presence"
           /\ response' = NoResponse
    ]_vars

\* the payload refers to a row of the store
Refers(payload, msgs) ==
  /\ payload.id \in DOMAIN msgs
  /\ msgs[payload.id].senderId = payload.senderId
  /\ msgs[payload.id].receiverId = payload.receiverId
  /\ msgs[payload.id].encryptedText = payload.encryptedText

\* C20: a send whose create stores no row answers 500, publishes nothing
\* and queues nothing; and every payload that is published or queued is the
\* payload of a Message that exists in the store.
C20_NothingWithoutStoredMessage ==
  [][ /\ \A p \in Procs :
           (SendAt(p, "create") /\ messages' = messages) =>
              /\ proc'[p] = Idle
              /\ response'.op = "send" /\ response'.code = 500
              /\ published' = << >>
              /\ pending' = pending
      /\ \A k \in DOMAIN published' : Refers(published'[k].data, messages')
      /\ \A u \in Users : \A k \in DOMAIN pending'[u] :
           Refers(pending'[u][k], messages')
    ]_vars

\* a send has answered 500 because the store refused a row whose
\* clientMessageId it does not hold
C20_Witness ==
  /\ response.op = "send" /\ response.code = 500
  /\ ~Stored(response.req.clientMessageId)
  /\ messages # << >>

\* C21: a send whose receiverUsername the user service does not know ends
\* at the resolution with 404; it creates no Message, publishes no event
\* and appends nothing to any Offline Queue.
C21_UnknownReceiverChangesNothing ==
  [][ \A p \in Procs :
        (SendAt(p, "resolve")
           /\ ResolveUsername(proc[p].req.receiverUsername) = NoUser) =>
           /\ proc'[p] = Idle
           /\ response' = [op |-> "send", req |-> proc[p].req, code |-> 404,
                           replay |-> FALSE, data |-> NoMessage]
           /\ messages' = messages
           /\ published' = << >>
           /\ pending' = pending
    ]_vars

\* a send to an unknown username has been answered 404 while the store
\* holds the messages of earlier sends
C21_Witness ==
  /\ response.op = "send" /\ response.code = 404
  /\ ResolveUsername(response.req.receiverUsername) = NoUser
  /\ messages # << >>
  /\ ~Stored(response.req.clientMessageId)

\* the PATCH handler p takes a step from position pc
PatchAt(p, pc) ==
  proc[p].op = "patch" /\ proc[p].pc = pc /\ proc'[p] # proc[p]

\* the status-events of single updates among the events of a step
StatusUpdates(events) ==
  {k \in DOMAIN events :
     events[k].channel[1] = "message_status" /\ "messageId" \in DOMAIN events[k].data}

\* C22: updateStatus persists, then publishes: the step that writes the
\* status publishes nothing; the next step of the handler publishes exactly
\* one event, on message_status:<senderId> of the message, with the
\* messageId and the new status; an update that the store rejects ends the
\* request with no event; and no other step publishes such an event.
C22_PersistThenPublishOnce ==
  [][ /\ \A p \in Procs :
           LET req == proc[p].req
           IN /\ PatchAt(p, "update") =>
                   /\ published' = << >>
                   /\ \/ /\ proc'[p].op = "patch" /\ proc'[p].pc = "publish"
                         /\ messages'[req.id].status = req.status
                      \/ /\ proc'[p] = Idle
                         /\ response'.code = 500
                         /\ messages' = messages
              /\ PatchAt(p, "publish") =>
                   /\ published' =
                        <<[channel |-> <<"message_status", messages[req.id].senderId>>,
                           data |-> [messageId |-> req.id, status |-> req.status]]>>
                   /\ messages' = messages
                   /\ response'.code = 200
      /\ StatusUpdates(published') # {} =>
           \E p \in Procs : PatchAt(p, "publish")
    ]_vars

\* a PATCH has been answered 200 after publishing the status it stored
C22_Witness ==
  /\ response.op = "patch" /\ response.code = 200
  /\ Len(published) = 1
  /\ published[1].channel = <<"message_status", messages[response.req.id].senderId>>
  /\ published[1].data.status = messages[response.req.id].status

\* the step answered a handshake with connect_error
Rejected ==
  \E k \in DOMAIN emitted' : emitted'[k].event = "connect_error"

\* the user a token was issued to
IssuedTo(token) == IF token = "token-A" THEN "A" ELSE "B"

\* C23: a connection whose handshake carries no token, or a token that fails
\* verification, never becomes a session: every socket the gateway holds
\* presented a token issued to its user; the step that rejects a handshake
\* creates no socket, sets no presence flag, drains no queue and publishes
\* nothing; and every presence write, drain, typing relay and published
\* command is the step of a socket the gateway holds.
C23_UnauthenticatedNeverActive ==
  [][ /\ \A s \in Sockets : sockets'[s] # Closed =>
             /\ sockets'[s].token \in {"token-A", "token-B"}
             /\ sockets'[s].userId = IssuedTo(sockets'[s].token)
      /\ Rejected =>
             /\ UNCHANGED <<sockets, online, pending, drained, inflight,
                            workerInbox, messages>>
             /\ published' = << >>
             /\ Len(emitted') = 1
      /\ \A u \in Users : online'[u] # online[u] =>
             \E s \in Sockets : sockets[s] # Closed /\ sockets[s].userId = u
      /\ \A k \in DOMAIN published' :
             \E s \in Sockets : /\ sockets[s] # Closed
                                /\ sockets[s].userId = published'[k].data.userId
      /\ \A k \in DOMAIN emitted' : emitted'[k].event # "connect_error" =>
             sockets[emitted'[k].socket] # Closed
    ]_vars

\* a handshake with a forged token has been rejected while the session of a
\* verified user is Active
C23_Witness ==
  /\ emitted = <<Emit(2, "connect_error", [message |-> "Invalid token"])>>
  /\ sockets[1] # Closed /\ sockets[1].pc = "ready" /\ sockets[1].open
  /\ sockets[2] = Closed
  /\ online[sockets[1].userId]

\* C24: a connection that closes, at whatever point of its handler, ends
\* with the Presence flag of its user cleared once the close is handled: a
\* flag that is set belongs to a user with a connection that is open or
\* whose handlers (connection, disconnect) have not finished yet.
C24_ClosedSessionClearsPresence ==
  \A u \in Users : online[u] =>
     \E s \in Sockets : sockets[s] # Closed /\ sockets[s].userId = u

\* the step confirmed a mark_delivered / mark_read command to its socket
Confirmed(k) ==
  emitted'[k].event \in {"delivery_confirmed", "read_confirmed"}

\* the status of stored message i changes in the step
StatusChanges(i) ==
  i \in DOMAIN messages /\ messages'[i].status # messages[i].status

\* C25: the command a session forwards to the status worker carries the
\* user its token was issued to, whatever the client sent as the argument,
\* also an object naming another user; a payload with a userId is published
\* on the command channels by a session only; and the worker changes the
\* status only of messages whose receiver is the userId of the payload it
\* serves.
C25_CommandsCarryAuthenticatedUser ==
  [][ /\ \A k \in DOMAIN emitted' : Confirmed(k) =>
            /\ Len(published') = 1
            /\ published'[1].channel[1] =
                 (IF emitted'[k].event = "delivery_confirmed"
                  THEN "message_delivery" ELSE "message_read")
            /\ published'[1].data.userId =
                 IssuedTo(sockets[emitted'[k].socket].token)
            /\ published'[1].data.messageIds = emitted'[k].data.messageIds
            /\ workerInbox' = Append(workerInbox, published'[1])
      /\ \A k \in DOMAIN published' :
            ( /\ published'[k].channel[1] \in {"message_delivery", "message_read"}
              /\ "userId" \in DOMAIN published'[k].data )
            => \E j \in DOMAIN emitted' : Confirmed(j)
      /\ \A i \in DOMAIN messages : StatusChanges(i) =>
            /\ workerInbox # << >>
            /\ workerInbox' = Tail(workerInbox)
            /\ Head(workerInbox).data.userId = messages[i].receiverId
    ]_vars

\* a session has sent, as the argument of a command, an object that names
\* another user, and the forwarded command carries the session's user
C25_Witness ==
  /\ Len(published) = 1
  /\ published[1].channel[1] \in {"message_delivery", "message_read"}
  /\ "userId" \in DOMAIN published[1].data
  /\ ~IsArray(published[1].data.messageIds)
  /\ published[1].data.messageIds.userId # published[1].data.userId
  /\ \E s \in Sockets :
        /\ sockets[s] # Closed
        /\ sockets[s].userId = published[1].data.userId
        /\ Len(emitted) = 1 /\ emitted[1].socket = s
  /\ messages # << >>

\* socket t is an Active session of userId: open, its connection handler done
Active(t, userId) ==
  InRoom(t, userId) /\ sockets[t].pc = "ready"

\* C26: a typing_start / typing_stop of user a addressed to b results in
\* user_typing {userId: a, typing} at every Active session of b, on the
\* instance of a's session and on any other: the step that publishes on
\* typing:<b> writes the event to the session, or hands it to a subscriber
\* of the gateway that relays it.
C26_TypingReachesReceiver ==
  [][ \A k \in DOMAIN published' : published'[k].channel[1] = "typing" =>
        \A t \in Sockets : Active(t, published'[k].channel[2]) =>
           \/ \E j \in DOMAIN emitted' :
                 emitted'[j] = Emit(t, "user_typing", published'[k].data)
           \/ \E j \in DOMAIN inflight' :
                 /\ inflight'[j].channel[2] = published'[k].channel[2]
                 /\ inflight'[j].data = published'[k].data
    ]_vars

\* the typing events among the events a step published
TypingEvents(events) ==
  {k \in DOMAIN events : events[k].channel[1] = "typing"}

\* C27: typing events are at-most-once and never persisted: the step that
\* publishes one writes user_typing at most once to a socket, only to
\* sockets that are in the receiver's room at that moment, and keeps the
\* event nowhere (Message Store, Offline Queues, events awaiting a relay or
\* the status worker); user_typing is written by no other step, hence never
\* to a session that connects later.
C27_TypingAtMostOnceNeverStored ==
  [][ /\ \A k \in TypingEvents(published') :
            /\ UNCHANGED <<messages, pending, inflight, workerInbox, queued>>
            /\ \A i, j \in DOMAIN emitted' :
                  emitted'[i].socket = emitted'[j].socket => i = j
            /\ \A j \in DOMAIN emitted' :
                  /\ emitted'[j].event = "user_typing"
                  /\ emitted'[j].data = published'[k].data
                  /\ InRoom(emitted'[j].socket, published'[k].channel[2])
      /\ \A j \in DOMAIN emitted' : emitted'[j].event = "user_typing" =>
            TypingEvents(published') # {}
    ]_vars

\* the one session of user B has been told, once, that A is typing
C27_Witness ==
  /\ TypingEvents(published) = {1}
  /\ published[1].data.userId = "A"
  /\ published[1].channel[2] = "B"
  /\ Len(emitted) = 1
  /\ emitted[1].event = "user_typing"
  /\ sockets[emitted[1].socket].userId = "B"

\* the status worker, or the gateway's subscriber, takes a payload in the step
WorkerTakes == Len(workerInbox') < Len(workerInbox)
RelayTakes  == Len(inflight') < Len(inflight)

\* a delivery / read payload that is not JSON, or lacks the userId or the
\* array of messageIds
Malformed(data) ==
  \/ "unparseable" \in DOMAIN data
  \/ "userId" \notin DOMAIN data
  \/ "messageIds" \notin DOMAIN data
  \/ DOMAIN data.messageIds # {"items"}

\* C28: a malformed payload on a subscribed channel is dropped: the step
\* that takes it changes no message, starts no status call, publishes and
\* emits nothing, and takes that one payload only, so that the payloads
\* behind it are still served; a well-formed payload is served whatever was
\* dropped before it: the worker starts markAsDelivered / markAsRead with
\* its messageIds and userId, the gateway writes it to the user's room.
C28_MalformedPayloadDropped ==
  [][ /\ WorkerTakes =>
            LET e == Head(workerInbox)
            IN /\ workerInbox' = Tail(workerInbox)
               /\ emitted' = << >>
               /\ published' = << >>
               /\ Malformed(e.data) => UNCHANGED <<messages, proc, inflight>>
               /\ ~Malformed(e.data) =>
                     \/ /\ e.channel[1] = "message_delivery"
                        /\ e.data.messageIds.items = {}
                        /\ UNCHANGED <<messages, proc>>
                     \/ \E p \in Procs :
                           /\ proc[p] = Idle
                           /\ proc'[p].op = (IF e.channel[1] = "message_delivery"
                                             THEN "markAsDelivered"
                                             ELSE "markAsRead")
                           /\ proc'[p].messageIds = e.data.messageIds.items
                           /\ proc'[p].userId = e.data.userId
      /\ RelayTakes =>
            LET e == Head(inflight)
            IN /\ inflight' = Tail(inflight)
               /\ published' = << >>
               /\ UNCHANGED <<messages, proc, workerInbox>>
               /\ "unparseable" \in DOMAIN e.data => emitted' = << >>
               /\ "unparseable" \notin DOMAIN e.data =>
                     \A t \in Sockets : InRoom(t, e.channel[2]) =>
                        \E j \in DOMAIN emitted' :
                           emitted'[j] = Emit(t, e.channel[1], e.data)
    ]_vars

\* the worker has dropped a payload and is serving a well-formed one
C28_Witness ==
  /\ warned
  /\ workerInbox = << >>
  /\ \E p \in Procs : /\ proc[p].op \in {"markAsDelivered", "markAsRead"}
                      /\ proc[p].pc = "notify"

\* the reconnect timers of client c that are scheduled and have not run
ReconnectTimers(c) == {t \in c.timers : t.kind = "reconnect"}

\* the step invoked the callback
Called(callback) ==
  \E k \in DOMAIN client'.called : client'.called[k] = callback

\* a socket of the client starts connecting in the step
StartsConnecting ==
  \E n \in DOMAIN client'.socks :
     /\ client'.socks[n] = "connecting"
     /\ n \in DOMAIN client.socks => client.socks[n] # "connecting"

\* C29: the client makes a bounded number of reconnection attempts:
\* reconnectAttempts never exceeds maxReconnectAttempts; at most one
\* reconnect timer is pending; a connection lost or failed while the limit
\* is reached invokes onReconnectFailed and schedules no timer, and below
\* the limit it counts one attempt and leaves exactly its timer pending; a
\* successful connect resets reconnectAttempts to 0 and cancels the timer.
C29_BoundedReconnection ==
  [][ /\ client'.reconnectAttempts <= maxReconnectAttempts
      /\ Cardinality(ReconnectTimers(client')) <= 1
      /\ Called("onReconnectFailed") =>
            /\ client.reconnectAttempts = maxReconnectAttempts
            /\ client'.reconnectAttempts = maxReconnectAttempts
            /\ ReconnectTimers(client') = {}
            /\ client'.nTimers = client.nTimers
      /\ Called("onReconnect") =>
            /\ client.reconnectAttempts < maxReconnectAttempts
            /\ client'.reconnectAttempts = client.reconnectAttempts + 1
            /\ ReconnectTimers(client') =
                 {[id |-> client'.reconnectTimer, kind |-> "reconnect"]}
      /\ ( /\ ~client.isIntentionalDisconnect
           /\ \E n \in DOMAIN client.socks :
                 /\ client.socks[n] = "connecting"
                 /\ client'.socks[n] = "disconnected" )
         => IF client.reconnectAttempts = maxReconnectAttempts
            THEN Called("onReconnectFailed") ELSE Called("onReconnect")
      /\ Called("onConnect") =>
            /\ client'.reconnectAttempts = 0
            /\ client'.reconnectTimer = 0
            /\ ReconnectTimers(client') = {}
    ]_vars

\* the last attempt has failed: onReconnectFailed was invoked at the limit
C29_Witness ==
  /\ client.called = <<"onError", "onReconnectFailed">>
  /\ client.reconnectAttempts = maxReconnectAttempts
  /\ client.timers = {}

\* C30: after disconnect() no reconnection happens until connect() is
\* called again: while isIntentionalDisconnect is set the client holds no
\* socket and no reconnect timer is pending, and a step that leaves it set
\* (an event of an old socket, a timer) starts no connection and counts no
\* attempt.
C30_NoReconnectAfterDisconnect ==
  [][ /\ client'.isIntentionalDisconnect =>
            /\ client'.socket = 0
            /\ ReconnectTimers(client') = {}
      /\ (client.isIntentionalDisconnect /\ client'.isIntentionalDisconnect) =>
            /\ ~StartsConnecting
            /\ ~Called("onReconnect")
            /\ client'.reconnectAttempts <= client.reconnectAttempts
    ]_vars

\* after one attempt, disconnect() has closed the socket that was
\* reconnecting, and the connect_error of that socket has arrived since:
\* nothing is scheduled
C30_Witness ==
  /\ client.isIntentionalDisconnect
  /\ client.called = <<"onError">>
  /\ client.socks = <<"destroyed">>
  /\ client.reconnectAttempts = 1
  /\ client.nTimers = 1
  /\ client.timers = {}

\* C31: the delay of the n-th consecutive reconnect attempt is
\* min(reconnectInterval * 2^(n-1), maxReconnectInterval): the first delay is
\* the interval (or the cap), each next one is twice the one before it or
\* the cap, it never decreases and never exceeds maxReconnectInterval.
C31_ExponentialBackoff ==
  [][ client'.reconnectAttempts = client.reconnectAttempts + 1 =>
        LET n        == client'.reconnectAttempts
            interval == client.options.reconnectInterval
            cap      == client.options.maxReconnectInterval
        IN /\ \/ client'.delay = interval * 2 ^ (n - 1)
              \/ client'.delay = cap
           /\ client'.delay <= interval * 2 ^ (n - 1)
           /\ client'.delay <= cap
           /\ n > 1 =>
                /\ client'.delay >= client.delay
                /\ client'.delay \in {2 * client.delay, cap}
    ]_vars

\* the second attempt in a row of a client whose first delay was its
\* interval: twice the interval is over the cap, and the delay is the cap
C31_Witness ==
  /\ client.reconnectAttempts = 2
  /\ client.options.reconnectInterval < client.options.maxReconnectInterval
  /\ 2 * client.options.reconnectInterval > client.options.maxReconnectInterval
  /\ client.delay = client.options.maxReconnectInterval
  /\ client.reconnectTimer # 0

\* the sendMessage call that stored message id has completed
SendDone(id) ==
  \A p \in Procs :
     ~(proc[p].op = "send" /\ proc[p].pc \in {"publish", "presence", "enqueue"}
         /\ proc[p].message.id = id)

\* C32: a newly persisted message is never left neither relayed nor queued:
\* when the gateway relays the new_message event of a message whose
\* sendMessage has completed, the event is written to a session of the
\* receiver, or the payload was appended to the receiver's Offline Queue.
C32_RelayedOrQueued ==
  [][ ( /\ RelayStep
        /\ Head(inflight).channel[1] = "new_message"
        /\ SendDone(Head(inflight).data.id) ) =>
          \/ \E k \in DOMAIN emitted' :
                /\ emitted'[k].event = "new_message"
                /\ sockets[emitted'[k].socket].userId
                     = Head(inflight).data.receiverId
          \/ Head(inflight).data.id \in queued
    ]_vars

\* C33: whenever a user has at least one Active session, the Presence flag
\* user:online:<userId> is set, also after another session of the same user
\* has disconnected.
C33_ActiveSessionHasPresence ==
  \A u \in Users : (\E t \in Sockets : Active(t, u)) => online[u]

\* C34: a PATCH /messages/:id/status by a caller who is not the receiver of
\* the message changes no stored status and publishes no status-event,
\* whatever status it carries: no step of a handler serving such a request
\* writes to the Message Store or publishes.
C34_NonReceiverPatchChangesNothing ==
  [][ /\ ( /\ PatchIssued
           /\ Issued.id \in DOMAIN messages
           /\ messages[Issued.id].receiverId # Issued.userId )
          => messages' = messages /\ published' = << >>
      /\ \A p \in Procs :
           ( /\ PatchAt(p, "update") \/ PatchAt(p, "publish")
             /\ messages[proc[p].req.id].receiverId # proc[p].req.userId )
             => messages' = messages /\ published' = << >>
    ]_vars

\* C35: the Message that POST /messages returns (200 or 201) has senderId
\* equal to the authenticated caller, also when the caller's clientMessageId
\* was used before by another sender.
C35_ReturnedMessageIsTheCallers ==
  (response.op = "send" /\ response.code \in {200, 201}) =>
     response.data.senderId = response.req.senderId

\* the ids of the messages a message_status event lists
Listed(data) ==
  IF "messageId" \in DOMAIN data THEN {data.messageId}
  ELSE {data.messageIds[k] : k \in DOMAIN data.messageIds}

\* C36: every event the gateway writes goes to sessions of the user it is
\* meant for: a new_message payload, relayed live or drained, to sockets
\* authenticated as the message's receiver; a message_status event to
\* sockets authenticated as the sender of every message it lists.
C36_EventsReachOnlyTheirUser ==
  [][ \A k \in DOMAIN emitted' :
        LET e      == emitted'[k]
            userId == verify(sockets[e.socket].token).id
        IN /\ e.event \in {"new_message", "message_status"}
           /\ e.event = "new_message" =>
                /\ e.data.receiverId = userId
                /\ messages[e.data.id].receiverId = userId
           /\ e.event = "message_status" =>
                \A id \in Listed(e.data) : messages[id].senderId = userId
    ]_vars

\* a status-event of a message between two users has been relayed to a
\* session
C36_Witness ==
  /\ Len(emitted) = 1
  /\ emitted[1].event = "message_status"
  /\ \E id \in Listed(emitted[1].data) :
        messages[id].senderId # messages[id].receiverId

\* C37: with several instances of the messaging service subscribed to
\* message_delivery and message_read, a command of a session results in one
\* status-event per sender in total: the calls that serve the command, on
\* whatever instance, never publish two status-events for the same sender.
C37_OneReceiptPerSenderInTotal ==
  \A i, j \in DOMAIN receipts :
     ( /\ receipts[i].command = receipts[j].command
       /\ receipts[i].senderId = receipts[j].senderId ) => i = j

\* the stored messages a markDelivered / markRead call lists whose receiver
\* is the call's userId
Own(call) ==
  {i \in call.messageIds \cap DOMAIN messages :
     messages[i].receiverId = call.userId}

\* C38: a markDelivered / markRead call that lists no message of its userId
\* (messages of other receivers, unknown ids, or nothing at all) changes no
\* message and publishes no status-event, in any of its steps.
C38_ForeignIdsChangeNothing ==
  [][ /\ (nMarks' = nMarks + 1 /\ proc' = proc) =>
            messages' = messages /\ published' = << >>
      /\ \A p \in Procs : MarkStep(p) =>
            LET call == IF NotifyStep(p) THEN proc[p] ELSE proc'[p]
            IN Own(call) = {} =>
                  messages' = messages /\ published' = << >>
    ]_vars

\* a call is about to publish its receipts, having listed only stored
\* messages that were sent to another user
C38_Witness ==
  \E p \in Procs :
     /\ proc[p].op \in {"markAsDelivered", "markAsRead"}
     /\ proc[p].pc = "notify"
     /\ proc[p].messageIds # {}
     /\ proc[p].messageIds \subseteq DOMAIN messages
     /\ Own(proc[p]) = {}

\* a session of the receiver of stored message i has just been sent the
\* confirmation event for a list that holds i
Acknowledged(event, i) ==
  \E k \in DOMAIN emitted :
     /\ emitted[k].event = event
     /\ IsArray(emitted[k].data.messageIds)
     /\ i \in emitted[k].data.messageIds.items
     /\ i \in DOMAIN messages
     /\ messages[i].receiverId = sockets[emitted[k].socket].userId

\* message i is stored with one of the statuses
StoredAs(i, statuses) ==
  i \in DOMAIN messages /\ messages[i].status \in statuses

\* C39: a confirmation implies the status change takes effect: after a
\* session received delivery_confirmed (read_confirmed) for a list, every
\* listed message of its user is eventually stored as delivered or read
\* (as read).
C39_ConfirmedTakesEffect ==
  \A i \in MsgIds :
     /\ Acknowledged("delivery_confirmed", i) ~> StoredAs(i, {"delivered", "read"})
     /\ Acknowledged("read_confirmed", i) ~> StoredAs(i, {"read"})

\* C40: sendMessage for a new message steps in the order resolve, persist
\* as sent, publish on new_message:<receiverId>, read presence, enqueue if
\* absent; each effect belongs to its step alone; the publish is made for
\* every message persisted, whatever the presence of the receiver, and its
\* payload carries status sent and the id of the stored message.
C40_SendStepsInOrder ==
  [][ /\ \A p \in Procs :
           /\ SendAt(p, "resolve") =>
                /\ proc'[p] = Idle \/ proc'[p].pc = "create"
                /\ messages' = messages /\ published' = << >>
                /\ pending' = pending
           /\ SendAt(p, "create") =>
                /\ published' = << >> /\ pending' = pending
                /\ \/ proc'[p] = Idle /\ messages' = messages
                   \/ /\ proc'[p].pc = "publish"
                      /\ Len(messages') = Len(messages) + 1
                      /\ SubSeq(messages', 1, Len(messages)) = messages
                      /\ messages'[Len(messages')].status = "sent"
                      /\ messages'[Len(messages')].receiverId
                           = ResolveUsername(proc[p].req.receiverUsername)
                      /\ proc'[p].message.id = Len(messages')
           /\ SendAt(p, "publish") =>
                /\ proc'[p].pc = "presence"
                /\ messages' = messages /\ pending' = pending
                /\ Len(published') = 1
                /\ published'[1].channel
                     = <<"new_message", messages[proc[p].message.id].receiverId>>
                /\ published'[1].data.id = proc[p].message.id
                /\ published'[1].data.status = "sent"
                /\ messages[proc[p].message.id].clientMessageId
                     = proc[p].req.clientMessageId
           /\ SendAt(p, "presence") =>
                /\ messages' = messages /\ published' = << >>
                /\ pending' = pending
                /\ IF online[proc[p].message.receiverId]
                   THEN proc'[p] = Idle ELSE proc'[p].pc = "enqueue"
           /\ SendAt(p, "enqueue") =>
                /\ proc'[p] = Idle
                /\ messages' = messages /\ published' = << >>
                /\ pending' = [pending EXCEPT ![proc[p].message.receiverId] =
                                 Append(@, Payload(proc[p].message))]
      /\ messages' # messages => \E p \in Procs : SendAt(p, "create")
      /\ published' # << >> => \E p \in Procs : SendAt(p, "publish")
      /\ (\E u \in Users : Len(pending'[u]) > Len(pending[u])) =>
            \E p \in Procs : SendAt(p, "enqueue")
    ]_vars

\* a send has published the payload of its message for a receiver without
\* presence key, and has yet to read the key
C40_Witness ==
  \E p \in Procs :
     /\ proc[p].op = "send" /\ proc[p].pc = "presence"
     /\ ~online[proc[p].message.receiverId]
     /\ Len(published) = 1
     /\ published[1].data.id = proc[p].message.id

====
